---- MODULE Spec2Model ----
(***************************************************************************)
(* Goal graph persistence engine of kai-unified-session: the entity model  *)
(* (goal.ts, snapshot.ts, branch.ts, project.ts), the YAML record store    *)
(* (yaml-store.ts), the goal service (goal-service.ts), the index builder  *)
(* (index-builder.ts) and the session-end hook.                            *)
(*                                                                         *)
(* Files are modelled as functions whose domain is the set of existing     *)
(* paths.  Timestamps are seconds of a clock `now`; a generated id is the  *)
(* pair (second, random suffix) encoded as second * NumRnd + suffix, so    *)
(* that integer order is the lexicographic order of the id strings.        *)
(* Progress is kept in tenths (ProgressOne = 1.0).                         *)
(***************************************************************************)
EXTENDS Integers, Sequences, FiniteSets, TLC

\* ------------------------------------------------------------------ bounds
\* seconds of the clock and random suffixes an id can take
MaxTime == 1
NumRnd == 2
\* operations carried out in one behaviour of each specification
SnapOps == 3
ProjectOps == 4
IndexOps == 3
BranchOps == 4
SwitchOps == 3
StatusOps == 3
CreateOps == 2
ParentOps == 4
AbsentOps == 3
ChangeOps == 3
GetIndexOps == 3
BuildOps == 3
CrashOps == 3
AddOps == 2
ClampOps == 3
ChainOps == 3
MemberOps == 4
AbandonOps == 4
HookOps == 4
MaxWalk == 4
CollideOps == 4
DeleteOps == 4
CompareOps == 2

\* Math.min(1, progress): 1.0 in tenths
ProgressOne == 10

\* .slice(0, 20) of the branch slug
SlugMax == 20

None == "none"
\* an absent optional id (undefined) and the empty string ''
NoId == 0 - 1
EmptyId == 0 - 2

\* ------------------------------------------------------------ input domains
Seconds == 0..MaxTime
Rnd == 0..(NumRnd - 1)
Statuses == {"active", "paused", "completed", "abandoned", "blocked"}
ProgressInputs == {-3, 5, 17}
Reasons == {"r1", "r2"}
PathA == <<"a">>
PathAB == <<"a", "b">>
ProjectPaths == {PathA, PathAB}
NameMain == <<"M", "a", "i", "n">>
NameX == <<"x">>
NameXUpper == <<"X">>
BranchNames == {NameMain, NameX, NameXUpper}

\* ------------------------------------------------------------- file helpers
Put(f, k, v) == [x \in (DOMAIN f) \cup {k} |-> IF x = k THEN v ELSE f[x]]
Del(f, k) == [x \in (DOMAIN f) \ {k} |-> f[x]]
NoFiles == [x \in {} |-> None]

Last(s) == s[Len(s)]

RECURSIVE SortedSeq(_)
\* readdirSync(...).sort(): the ids of a directory, ascending
SortedSeq(S) ==
  IF S = {} THEN <<>>
  ELSE LET m == CHOOSE x \in S : \A y \in S : x <= y
       IN <<m>> \o SortedSeq(S \ {m})

RECURSIVE FilterSeq(_, _)
\* Array.prototype.filter((id) => id !== x)
FilterSeq(s, x) ==
  IF s = <<>> THEN <<>>
  ELSE IF Head(s) = x THEN FilterSeq(Tail(s), x)
       ELSE <<Head(s)>> \o FilterSeq(Tail(s), x)

\* ------------------------------------------------------------ id generation
\* generateGoalId / generateSnapshotId: timestamp to the second + random suffix
GenId(t, r) == t * NumRnd + r

\* ------------------------------------------------------------------ goal.ts
BranchMain == <<"branch", <<"m", "a", "i", "n">>>>

\* variant whose default branch reference is not flagged current
createGoalNoCurrent(input, id, t) ==
  [ id |-> id,
    created |-> t,
    updated |-> t,
    current_state |-> input.current_state,
    desired_state |-> input.desired_state,
    status |-> "active",
    progress |-> 0,
    title |-> input.title,
    tags |-> input.tags,
    project |-> input.project,
    parent |-> input.parent,
    children |-> <<>>,
    depends_on |-> <<>>,
    informs |-> <<>>,
    evolved_from |-> NoId,
    branches |-> << [id |-> BranchMain, name |-> <<"m", "a", "i", "n">>,
                     status |-> "active", current |-> "false", reason |-> None] >>,
    snapshots |-> <<>> ]

\* createGoal(input, createdBy) with the id and time drawn by the caller
createGoal(input, id, t) ==
  [ id |-> id,
    created |-> t,
    updated |-> t,
    current_state |-> input.current_state,
    desired_state |-> input.desired_state,
    status |-> "active",
    progress |-> 0,
    title |-> input.title,
    tags |-> input.tags,
    project |-> input.project,
    parent |-> input.parent,
    children |-> <<>>,
    depends_on |-> <<>>,
    informs |-> <<>>,
    evolved_from |-> NoId,
    branches |-> << [id |-> BranchMain, name |-> <<"m", "a", "i", "n">>,
                     status |-> "active", current |-> "true", reason |-> None] >>,
    snapshots |-> <<>> ]

\* { ...goal, ...input, updated: now }: input is a function from the
\* patched field names to their values
updateGoal(goal, input, t) ==
  [ f \in DOMAIN goal |->
      IF f = "updated" THEN t
      ELSE IF f \in DOMAIN input THEN input[f]
      ELSE goal[f] ]

\* -------------------------------------------------------------- snapshot.ts
\* goal.branches.find((b) => b.current)?.id || 'branch_main'
CurrentBranch(goal) ==
  LET idx == { i \in 1..Len(goal.branches) : goal.branches[i].current = "true" }
  IN IF idx = {} THEN BranchMain
     ELSE goal.branches[CHOOSE i \in idx : \A j \in idx : i <= j].id

createSnapshot(goal, sid, t, event, trigger, changes) ==
  [ id |-> sid,
    goal_id |-> goal.id,
    created |-> t,
    trigger |-> trigger,
    current_state |-> goal.current_state,
    desired_state |-> goal.desired_state,
    progress |-> goal.progress,
    status |-> goal.status,
    event |-> event,
    changes |-> changes,
    previous_snapshot |-> IF Len(goal.snapshots) > 0 THEN Last(goal.snapshots) ELSE NoId,
    branch |-> CurrentBranch(goal) ]

\* JSON.stringify of a number, a string, an array, or an object; an object
\* is the sequence of its <<key, value>> pairs in insertion order, which is
\* the order JSON.stringify writes them in
JsonStringify(v) == ToString(v)

DefaultFields == <<"progress", "status", "current_state", "desired_state">>

RECURSIVE computeChanges(_, _, _)
computeChanges(before, after, fields) ==
  IF fields = <<>> THEN <<>>
  ELSE LET f == Head(fields)
           rest == computeChanges(before, after, Tail(fields))
       IN IF JsonStringify(before[f]) # JsonStringify(after[f])
          THEN << [field |-> f, from |-> JsonStringify(before[f]),
                   to |-> JsonStringify(after[f])] >> \o rest
          ELSE rest

\* ---------------------------------------------------------------- branch.ts
LowerCase(c) == IF c = "M" THEN "m" ELSE IF c = "X" THEN "x" ELSE IF c = "P" THEN "p" ELSE c
IsAlnum(c) == c \in {"a", "b", "i", "m", "n", "p", "q", "x", "0", "1"}

RECURSIVE ReplaceRuns(_, _)
\* .replace(/[^a-z0-9]+/g, '_'): inRun says the previous character was replaced
ReplaceRuns(s, inRun) ==
  IF s = <<>> THEN <<>>
  ELSE IF IsAlnum(Head(s)) THEN <<Head(s)>> \o ReplaceRuns(Tail(s), FALSE)
       ELSE IF inRun THEN ReplaceRuns(Tail(s), TRUE)
            ELSE <<"_">> \o ReplaceRuns(Tail(s), TRUE)

Slugify(name, max) ==
  LET lower == [i \in 1..Len(name) |-> LowerCase(name[i])]
      repl == ReplaceRuns(lower, FALSE)
  IN SubSeq(repl, 1, IF Len(repl) < max THEN Len(repl) ELSE max)

\* resolution: undefined and merged_to: undefined
NoResolution == [status |-> None, reason |-> None, decided |-> NoId, decided_by |-> None]
NoBranch == <<None, <<>>>>

generateBranchId(name) == <<"branch", Slugify(name, SlugMax)>>

\* variant that always takes branch_main as the parent
createBranchFromMain(goal, name, description, t) ==
  [ id |-> generateBranchId(name),
    goal_id |-> goal.id,
    created |-> t,
    updated |-> t,
    name |-> name,
    description |-> description,
    status |-> "active",
    parent_branch |-> BranchMain,
    branch_point |-> IF Len(goal.snapshots) > 0 THEN Last(goal.snapshots) ELSE EmptyId,
    snapshots |-> <<>>,
    resolution |-> NoResolution,
    merged_to |-> NoBranch,
    merge_snapshot |-> NoId ]

createBranch(goal, name, description, t) ==
  [ id |-> generateBranchId(name),
    goal_id |-> goal.id,
    created |-> t,
    updated |-> t,
    name |-> name,
    description |-> description,
    status |-> "active",
    parent_branch |-> CurrentBranch(goal),
    branch_point |-> IF Len(goal.snapshots) > 0 THEN Last(goal.snapshots) ELSE EmptyId,
    snapshots |-> <<>>,
    resolution |-> NoResolution,
    merged_to |-> NoBranch,
    merge_snapshot |-> NoId ]

\* variant that records the resolution but leaves the status as it was
abandonBranchKeepStatus(branch, reason, t) ==
  [ branch EXCEPT !.updated = t,
                  !.resolution = [status |-> "abandoned", reason |-> reason,
                                  decided |-> t, decided_by |-> "main"] ]

abandonBranch(branch, reason, t) ==
  [ branch EXCEPT !.status = "abandoned",
                  !.updated = t,
                  !.resolution = [status |-> "abandoned", reason |-> reason,
                                  decided |-> t, decided_by |-> "main"] ]

mergeBranch(branch, target, mergeSnapshot, t) ==
  [ branch EXCEPT !.status = "merged",
                  !.updated = t,
                  !.resolution = [status |-> "merged", reason |-> None,
                                  decided |-> t, decided_by |-> "main"],
                  !.merged_to = target,
                  !.merge_snapshot = mergeSnapshot ]

\* --------------------------------------------------------------- project.ts
ProjectSlugMax == 30

generateProjectId(name) == <<"proj", Slugify(name, ProjectSlugMax)>>

\* createProject(input): paths are sequences of segments, already without
\* a trailing slash
createProject(input, t) ==
  [ id |-> generateProjectId(input.name),
    name |-> input.name,
    path |-> input.path,
    created |-> t,
    updated |-> t,
    auto_detect |-> input.auto_detect,
    active_goals |-> <<>>,
    paused_goals |-> <<>>,
    completed_goals |-> <<>>,
    abandoned_goals |-> <<>> ]

StatusLists == {"active_goals", "paused_goals", "completed_goals", "abandoned_goals"}
ListOf(status) ==
  CASE status = "active" -> "active_goals"
    [] status = "paused" -> "paused_goals"
    [] status = "completed" -> "completed_goals"
    [] status = "abandoned" -> "abandoned_goals"
    [] OTHER -> None

\* addGoalToProject without the removal from the four lists
addGoalToProjectNoRemove(project, goalId, status, t) ==
  [ f \in DOMAIN project |->
      IF f = "updated" THEN t
      ELSE IF f = ListOf(status) THEN Append(project[f], goalId)
      ELSE project[f] ]

\* variant that clears the goal from the other three lists only
addGoalToProjectKeepOwn(project, goalId, status, t) ==
  [ f \in DOMAIN project |->
      IF f = "updated" THEN t
      ELSE IF f \in StatusLists
           THEN IF f = ListOf(status)
                THEN Append(project[f], goalId)
                ELSE FilterSeq(project[f], goalId)
           ELSE project[f] ]

\* remove from all four lists, then push to the list of the status; a
\* status outside the four cases of the switch pushes nowhere
addGoalToProject(project, goalId, status, t) ==
  [ f \in DOMAIN project |->
      IF f = "updated" THEN t
      ELSE IF f \in StatusLists
           THEN IF f = ListOf(status)
                THEN Append(FilterSeq(project[f], goalId), goalId)
                ELSE FilterSeq(project[f], goalId)
           ELSE project[f] ]

IsPrefix(p, q) == Len(p) <= Len(q) /\ SubSeq(q, 1, Len(p)) = p

\* testPath === project.path || testPath.startsWith(project.path + '/')
pathMatchesProject(project, testPath) ==
  project.auto_detect /\ IsPrefix(project.path, testPath)

\* the matching project with the longest path; NoProject when none matches
NoProject == [id |-> <<None, <<>>>>]
findBestMatchingProject(projs, testPath) ==
  LET m == { k \in DOMAIN projs : pathMatchesProject(projs[k], testPath) }
  IN IF m = {} THEN NoProject
     ELSE projs[CHOOSE k \in m : \A j \in m : Len(projs[j].path) <= Len(projs[k].path)]

\* ----------------------------------------------------------- index-builder.ts
RECURSIVE IdsWhere(_, _, _)
\* the ids of the goals of the sequence that satisfy the key, in iteration order
IdsWhere(goals, field, key) ==
  IF goals = <<>> THEN <<>>
  ELSE LET g == Head(goals)
           hit == IF field = "tags" THEN \E i \in 1..Len(g.tags) : g.tags[i] = key
                  ELSE g[field] = key
       IN (IF hit THEN <<g.id>> ELSE <<>>) \o IdsWhere(Tail(goals), field, key)

RECURSIVE Edges(_)
Edges(goals) ==
  IF goals = <<>> THEN <<>>
  ELSE LET g == Head(goals)
       IN (IF g.parent # NoId THEN << [from |-> g.parent, to |-> g.id, type |-> "parent"] >>
           ELSE <<>>)
          \o [i \in 1..Len(g.children) |-> [from |-> g.id, to |-> g.children[i], type |-> "child"]]
          \o [i \in 1..Len(g.depends_on) |-> [from |-> g.id, to |-> g.depends_on[i], type |-> "depends_on"]]
          \o [i \in 1..Len(g.informs) |-> [from |-> g.id, to |-> g.informs[i], type |-> "informs"]]
          \o (IF g.evolved_from # NoId
              THEN << [from |-> g.evolved_from, to |-> g.id, type |-> "evolved_from"] >>
              ELSE <<>>)
          \o Edges(Tail(goals))

IndexEntry(g) ==
  [ title |-> g.title, status |-> g.status, progress |-> g.progress,
    project |-> g.project, parent |-> g.parent, children |-> g.children,
    tags |-> g.tags, updated |-> g.updated ]

\* buildIndex that stamps every entry with the time of the run
buildIndexStamped(goals, t) ==
  LET ids == { goals[i].id : i \in 1..Len(goals) }
      lastOf(id) == CHOOSE i \in 1..Len(goals) :
                      goals[i].id = id /\ \A j \in 1..Len(goals) : goals[j].id = id => j <= i
      statuses == { goals[i].status : i \in 1..Len(goals) }
      projs == { goals[i].project : i \in 1..Len(goals) }
      tags == UNION { { goals[i].tags[j] : j \in 1..Len(goals[i].tags) } : i \in 1..Len(goals) }
  IN [ generated |-> t,
       goals |-> [id \in ids |-> [IndexEntry(goals[lastOf(id)]) EXCEPT !.updated = t]],
       by_status |-> [s \in statuses |-> IdsWhere(goals, "status", s)],
       by_project |-> [p \in projs |-> IdsWhere(goals, "project", p)],
       by_tag |-> [g \in tags |-> IdsWhere(goals, "tags", g)],
       edges |-> Edges(goals) ]

\* buildIndex(goals): a later goal with the same id replaces the entry of an
\* earlier one, the group lists and the edges keep both
buildIndex(goals, t) ==
  LET ids == { goals[i].id : i \in 1..Len(goals) }
      lastOf(id) == CHOOSE i \in 1..Len(goals) :
                      goals[i].id = id /\ \A j \in 1..Len(goals) : goals[j].id = id => j <= i
      statuses == { goals[i].status : i \in 1..Len(goals) }
      projs == { goals[i].project : i \in 1..Len(goals) }
      tags == UNION { { goals[i].tags[j] : j \in 1..Len(goals[i].tags) } : i \in 1..Len(goals) }
  IN [ generated |-> t,
       goals |-> [id \in ids |-> IndexEntry(goals[lastOf(id)])],
       by_status |-> [s \in statuses |-> IdsWhere(goals, "status", s)],
       by_project |-> [p \in projs |-> IdsWhere(goals, "project", p)],
       by_tag |-> [g \in tags |-> IdsWhere(goals, "tags", g)],
       edges |-> Edges(goals) ]

\* ------------------------------------------------------------------- state
VARIABLES
  now,          \* the clock, in seconds
  active,       \* goals/active/<id>.yaml
  archived,     \* goals/archived/<id>.yaml
  snapFiles,    \* goals/snapshots/<goal id>/<snapshot id>.yaml
  branchFiles,  \* goals/branches/<goal id>/<branch id>.yaml
  projects,     \* goals/projects/<id>.yaml
  index,        \* goals/index.json
  last,         \* the last operation, its arguments and what it returned
  ops,          \* the number of operations carried out so far
  procs,        \* the writer processes that run update side by side
  walk,         \* the graph walk in progress: getAncestors or getDescendants
  session       \* state/session.yaml: the last session and its active goal

vars == <<now, active, archived, snapFiles, branchFiles, projects, index, last, ops, procs, walk, session>>

\* the record store as one value, so that a handler is a function of it
Store == [ active |-> active, archived |-> archived, snapFiles |-> snapFiles,
           branchFiles |-> branchFiles, projects |-> projects, index |-> index ]

\* the files after a write
Write(S) ==
  /\ active' = S.active
  /\ archived' = S.archived
  /\ snapFiles' = S.snapFiles
  /\ branchFiles' = S.branchFiles
  /\ projects' = S.projects
  /\ index' = S.index

\* the writes of a handler that runs on its own, from start to end
Commit(S) ==
  /\ Write(S)
  /\ UNCHANGED <<procs, walk, session>>

\* ------------------------------------------------------------- yaml-store.ts
IndexFile == "index.json"
NoGoal == [id |-> NoId]

saveGoal(S, goal) == [S EXCEPT !.active = Put(@, goal.id, goal)]

GoalExists(S, id) == id \in DOMAIN S.active \/ id \in DOMAIN S.archived

\* the active record first, then the archived one
loadGoal(S, id) ==
  IF id \in DOMAIN S.active THEN S.active[id]
  ELSE IF id \in DOMAIN S.archived THEN S.archived[id]
  ELSE NoGoal

\* archiveGoal that copies the record and leaves the active one in place
archiveGoalCopy(S, id) ==
  IF id \notin DOMAIN S.active THEN S
  ELSE [S EXCEPT !.archived = Put(@, id, S.active[id])]

\* renameSync(activePath, archivedPath): replaces an archived record of the id
archiveGoal(S, id) ==
  IF id \notin DOMAIN S.active THEN S
  ELSE [S EXCEPT !.active = Del(@, id), !.archived = Put(@, id, S.active[id])]

deleteGoalActiveOnly(S, id) ==
  [ S |-> [S EXCEPT !.active = Del(@, id)],
    deleted |-> id \in DOMAIN S.active ]

\* unlinkSync of the active and of the archived record, each if it exists
deleteGoal(S, id) ==
  [ S |-> [S EXCEPT !.active = Del(@, id), !.archived = Del(@, id)],
    deleted |-> (id \in DOMAIN S.active) \/ (id \in DOMAIN S.archived) ]

\* directory listings are taken in ascending id order
listGoals(S, includeArchived) ==
  SortedSeq(DOMAIN S.active)
    \o (IF includeArchived THEN SortedSeq(DOMAIN S.archived) ELSE <<>>)

loadAllGoals(S, includeArchived) ==
  LET ids == listGoals(S, includeArchived)
  IN [i \in 1..Len(ids) |-> loadGoal(S, ids[i])]

saveSnapshot(S, snap) == [S EXCEPT !.snapFiles = Put(@, <<snap.goal_id, snap.id>>, snap)]

listSnapshots(S, goalId) ==
  SortedSeq({ k[2] : k \in { x \in DOMAIN S.snapFiles : x[1] = goalId } })

\* variant that leaves an existing record of the id as it is
saveBranchKeepFirst(S, branch) ==
  IF <<branch.goal_id, branch.id>> \in DOMAIN S.branchFiles THEN S
  ELSE [S EXCEPT !.branchFiles = Put(@, <<branch.goal_id, branch.id>>, branch)]

saveBranch(S, branch) ==
  [S EXCEPT !.branchFiles = Put(@, <<branch.goal_id, branch.id>>, branch)]

BranchExists(S, goalId, branchId) == <<goalId, branchId>> \in DOMAIN S.branchFiles

saveProject(S, project) == [S EXCEPT !.projects = Put(@, project.id, project)]

findProjectByPath(S, path) == findBestMatchingProject(S.projects, path)

saveIndex(S, idx) == [S EXCEPT !.index = Put(@, IndexFile, idx)]

\* the keys of the index document in the order JSON.stringify writes them
IndexKeys == <<"generated", "goals", "by_status", "by_project", "by_tag", "edges">>

\* writeFileSync(paths.index(), ...) stopped part-way: the file was opened
\* for writing in place, so it holds the first k keys of the new document
saveIndexInterrupted(S, idx, k) ==
  [S EXCEPT !.index =
     Put(@, IndexFile, [f \in { IndexKeys[i] : i \in 1..k } |-> idx[f]])]

\* rebuildIndex that leaves the archived goals out
rebuildIndexActiveOnly(S, t) == saveIndex(S, buildIndex(loadAllGoals(S, FALSE), t))

\* rebuildIndex(): loadAllGoals(true), buildIndex, saveIndex
rebuildIndex(S, t) == saveIndex(S, buildIndex(loadAllGoals(S, TRUE), t))

\* getIndex that rebuilds and saves whether or not an index is stored
getIndexRebuild(S, t) ==
  LET idx == buildIndex(loadAllGoals(S, TRUE), t)
  IN [S |-> saveIndex(S, idx), value |-> idx]

\* getIndex(): the stored index when there is one (JSON.parse of the file;
\* a key JSON leaves out and a key holding undefined are the same NoId
\* here), otherwise buildIndex of all goals, saved and returned
getIndex(S, t) ==
  IF IndexFile \in DOMAIN S.index THEN [S |-> S, value |-> S.index[IndexFile]]
  ELSE LET idx == buildIndex(loadAllGoals(S, TRUE), t)
       IN [S |-> saveIndex(S, idx), value |-> idx]

\* getParentGoal(goalId): index.goals[goalId]?.parent
getParentGoal(S, goalId, t) ==
  LET res == getIndex(S, t)
  IN [ S |-> res.S,
       value |-> IF goalId \in DOMAIN res.value.goals
                 THEN res.value.goals[goalId].parent ELSE NoId ]

\* getChildGoals(parentId): the targets of the parent edges leaving parentId
getChildGoals(S, parentId, t) ==
  LET res == getIndex(S, t)
      IsChildEdge(e) == e.from = parentId /\ e.type = "parent"
      hits == SelectSeq(res.value.edges, IsChildEdge)
  IN [ S |-> res.S, value |-> [i \in 1..Len(hits) |-> hits[i].to] ]

\* getStats(): the number of index entries and the length of each group list
getStats(S, t) ==
  LET res == getIndex(S, t)
      idx == res.value
  IN [ S |-> res.S,
       value |-> [ total |-> Cardinality(DOMAIN idx.goals),
                   byStatus |-> [k \in DOMAIN idx.by_status |-> Len(idx.by_status[k])],
                   byProject |-> [k \in DOMAIN idx.by_project |-> Len(idx.by_project[k])] ] ]

\* variant that puts the newest ancestor first
ancestorsPushFront(ancestors, current) == <<current>> \o ancestors

\* ancestors.push(current)
ancestorsPush(ancestors, current) == Append(ancestors, current)

\* ----------------------------------------------------------- goal-service.ts
generateSnapshotEvent(input) ==
  IF "status" \in DOMAIN input /\ input.status = "completed" THEN "Goal completed"
  ELSE IF "status" \in DOMAIN input /\ input.status = "abandoned" THEN "Goal abandoned"
  ELSE IF "status" \in DOMAIN input /\ input.status = "paused" THEN "Goal paused"
  ELSE IF "status" \in DOMAIN input /\ input.status = "active" THEN "Goal resumed"
  ELSE IF "progress" \in DOMAIN input THEN "Progress updated"
  ELSE "Goal updated"

\* create(input, options); rg and rs are the random suffixes of the goal id
\* and of the snapshot id
create(S, input, autoSnapshot, autoIndex, t, rg, rs) ==
  LET goal == createGoal(input, GenId(t, rg), t)
      S1 == saveGoal(S, goal)
      snap == createSnapshot(goal, GenId(t, rs), t, "Goal created", "manual", <<>>)
      goal2 == IF autoSnapshot THEN [goal EXCEPT !.snapshots = Append(@, snap.id)] ELSE goal
      S2 == IF autoSnapshot THEN saveGoal(saveSnapshot(S1, snap), goal2) ELSE S1
      project == findProjectByPath(S2, input.project)
      S3 == IF project.id # NoProject.id
            THEN saveProject(S2, addGoalToProject(project, goal.id, "active", t))
            ELSE S2
      S4 == IF autoIndex THEN rebuildIndex(S3, t) ELSE S3
  IN [S |-> S4, found |-> TRUE, goal |-> goal2]

\* update(goalId, input, options); event is options.snapshotEvent or None
update(S, goalId, input, autoSnapshot, autoIndex, event, t, r) ==
  IF ~GoalExists(S, goalId) THEN [S |-> S, found |-> FALSE, goal |-> NoGoal]
  ELSE
    LET goal == loadGoal(S, goalId)
        updatedGoal == updateGoal(goal, input, t)
        changes == computeChanges(goal, updatedGoal, DefaultFields)
        doSnap == /\ autoSnapshot
                  /\ ("progress" \in DOMAIN input \/ "status" \in DOMAIN input)
                  /\ Len(changes) > 0
        ev == IF event # None THEN event ELSE generateSnapshotEvent(input)
        snap == createSnapshot(updatedGoal, GenId(t, r), t, ev, "auto_progress", changes)
        goal2 == IF doSnap THEN [updatedGoal EXCEPT !.snapshots = Append(@, snap.id)]
                 ELSE updatedGoal
        S1 == IF doSnap THEN saveSnapshot(S, snap) ELSE S
        S2 == saveGoal(S1, goal2)
        project == findProjectByPath(S2, goal2.project)
        S3 == IF /\ "status" \in DOMAIN input
                 /\ input.status # goal.status
                 /\ project.id # NoProject.id
              THEN saveProject(S2, addGoalToProject(project, goalId, input.status, t))
              ELSE S2
        S4 == IF autoIndex THEN rebuildIndex(S3, t) ELSE S3
    IN [S |-> S4, found |-> TRUE, goal |-> goal2]

\* archive(goalId, autoIndex)
archive(S, goalId, autoIndex, t) ==
  LET result == goalId \in DOMAIN S.active
      S1 == archiveGoal(S, goalId)
      S2 == IF result /\ autoIndex THEN rebuildIndex(S1, t) ELSE S1
  IN [S |-> S2, found |-> result]

\* complete(goalId, summary): update, then a milestone snapshot when a
\* summary is given
complete(S, goalId, hasSummary, t, r1, r2) ==
  LET res == update(S, goalId, [status |-> "completed", progress |-> ProgressOne],
                    TRUE, TRUE, "Goal completed", t, r1)
      snap == createSnapshot(res.goal, GenId(t, r2), t, "Goal completed", "milestone", <<>>)
      goal2 == [res.goal EXCEPT !.snapshots = Append(@, snap.id)]
  IN IF res.found /\ hasSummary
     THEN [S |-> saveGoal(saveSnapshot(res.S, snap), goal2), found |-> TRUE, goal |-> goal2]
     ELSE res

abandon(S, goalId, t, r) ==
  update(S, goalId, [status |-> "abandoned"], TRUE, TRUE, "Goal abandoned: reason", t, r)

pause(S, goalId, t, r) ==
  update(S, goalId, [status |-> "paused"], TRUE, TRUE, "Goal paused", t, r)

resume(S, goalId, t, r) ==
  update(S, goalId, [status |-> "active"], TRUE, TRUE, "Goal resumed", t, r)

Max(a, b) == IF a > b THEN a ELSE b
Min(a, b) == IF a < b THEN a ELSE b

\* clamping from above only
ClampNoFloor(p) == Min(ProgressOne, p)

\* Math.max(0, Math.min(1, progress))
Clamp(p) == Max(0, Min(ProgressOne, p))

setProgress(S, goalId, progress, t, r) ==
  update(S, goalId, [progress |-> Clamp(progress)], TRUE, TRUE, None, t, r)

createManualSnapshot(S, goalId, t, r) ==
  IF ~GoalExists(S, goalId) THEN [S |-> S, found |-> FALSE]
  ELSE
    LET goal == loadGoal(S, goalId)
        snap == createSnapshot(goal, GenId(t, r), t, "manual event", "manual", <<>>)
        goal2 == [goal EXCEPT !.snapshots = Append(@, snap.id)]
    IN [S |-> saveGoal(saveSnapshot(S, snap), goal2), found |-> TRUE]

createGoalBranch(S, goalId, name, description, t, r) ==
  IF ~GoalExists(S, goalId) THEN [S |-> S, found |-> FALSE]
  ELSE
    LET goal == loadGoal(S, goalId)
        branchSnapshot == createSnapshot(goal, GenId(t, r), t, "Branch created",
                                         "branch_create", <<>>)
        goal2 == [goal EXCEPT !.snapshots = Append(@, branchSnapshot.id)]
        S1 == saveSnapshot(S, branchSnapshot)
        branch == createBranch(goal2, name, description, t)
        S2 == saveBranch(S1, branch)
        goal3 == [goal2 EXCEPT !.branches =
                    Append(@, [id |-> branch.id, name |-> branch.name,
                               status |-> "active", current |-> "unset",
                               reason |-> None])]
        S3 == saveGoal(S2, goal3)
    IN [S |-> rebuildIndex(S3, t), found |-> TRUE]

\* current: b.id === branchId on every reference
switchBranch(S, goalId, branchId) ==
  IF ~GoalExists(S, goalId) THEN [S |-> S, found |-> FALSE]
  ELSE
    LET goal == loadGoal(S, goalId)
        goal2 == [goal EXCEPT !.branches =
                    [i \in 1..Len(goal.branches) |->
                       [goal.branches[i] EXCEPT
                          !.current = IF goal.branches[i].id = branchId
                                      THEN "true" ELSE "false"]]]
    IN [S |-> saveGoal(S, goal2), found |-> TRUE]

\* variant that rebuilds the index even when the branch record is missing
abandonGoalBranchRebuild(S, goalId, branchId, reason, t) ==
  IF ~BranchExists(S, goalId, branchId) THEN [S |-> rebuildIndex(S, t), found |-> FALSE]
  ELSE
    LET branch == S.branchFiles[<<goalId, branchId>>]
        abandoned == abandonBranch(branch, reason, t)
        S1 == saveBranch(S, abandoned)
        goal == loadGoal(S1, goalId)
        goal2 == [goal EXCEPT !.branches =
                    [i \in 1..Len(goal.branches) |->
                       IF goal.branches[i].id = branchId
                       THEN [goal.branches[i] EXCEPT !.status = "abandoned",
                                                     !.reason = reason]
                       ELSE goal.branches[i]]]
        S2 == IF GoalExists(S1, goalId) THEN saveGoal(S1, goal2) ELSE S1
    IN [S |-> rebuildIndex(S2, t), found |-> TRUE]

\* variant that also takes a closing snapshot of the goal
abandonGoalBranchClosing(S, goalId, branchId, reason, t) ==
  IF ~BranchExists(S, goalId, branchId) THEN [S |-> S, found |-> FALSE]
  ELSE
    LET branch == S.branchFiles[<<goalId, branchId>>]
        abandoned == abandonBranch(branch, reason, t)
        S1 == saveBranch(S, abandoned)
        goal == loadGoal(S1, goalId)
        snap == createSnapshot(goal, GenId(t, 0), t, "Branch abandoned", "branch_abandon", <<>>)
        goal2 == [goal EXCEPT !.branches =
                    [i \in 1..Len(goal.branches) |->
                       IF goal.branches[i].id = branchId
                       THEN [goal.branches[i] EXCEPT !.status = "abandoned",
                                                     !.reason = reason]
                       ELSE goal.branches[i]],
                  !.snapshots = Append(@, snap.id)]
        S2 == IF GoalExists(S1, goalId) THEN saveGoal(saveSnapshot(S1, snap), goal2) ELSE S1
    IN [S |-> rebuildIndex(S2, t), found |-> TRUE]

abandonGoalBranch(S, goalId, branchId, reason, t) ==
  IF ~BranchExists(S, goalId, branchId) THEN [S |-> S, found |-> FALSE]
  ELSE
    LET branch == S.branchFiles[<<goalId, branchId>>]
        abandoned == abandonBranch(branch, reason, t)
        S1 == saveBranch(S, abandoned)
        goal == loadGoal(S1, goalId)
        goal2 == [goal EXCEPT !.branches =
                    [i \in 1..Len(goal.branches) |->
                       IF goal.branches[i].id = branchId
                       THEN [goal.branches[i] EXCEPT !.status = "abandoned",
                                                     !.reason = reason]
                       ELSE goal.branches[i]]]
        S2 == IF GoalExists(S1, goalId) THEN saveGoal(S1, goal2) ELSE S1
    IN [S |-> rebuildIndex(S2, t), found |-> TRUE]

\* registerProject(input): an existing project matching the path is renamed
\* in place, otherwise a new project record is written
registerProject(S, input, t) ==
  LET existing == findProjectByPath(S, input.path)
  IN IF existing.id # NoProject.id
     THEN saveProject(S, [existing EXCEPT !.name = input.name,
                                          !.auto_detect = input.auto_detect,
                                          !.updated = t])
     ELSE saveProject(S, createProject(input, t))

\* ------------------------------------------------------- hooks/session-end.ts
\* the snapshot main() takes of the session's active goal
sessionEndSnapshot(S, goalId, t, r) ==
  IF ~GoalExists(S, goalId) THEN [S |-> S, found |-> FALSE]
  ELSE
    LET goal == loadGoal(S, goalId)
        snap == createSnapshot(goal, GenId(t, r), t, "Session ended", "session_end", <<>>)
        goal2 == [goal EXCEPT !.snapshots = Append(@, snap.id)]
    IN [S |-> saveGoal(saveSnapshot(S, snap), goal2), found |-> TRUE]

\* update(goalId, input) with default options up to its first write: the
\* goal to save and the snapshot to save, computed from the goal it loaded
updatePlan(goal, input, t, r) ==
  LET updatedGoal == updateGoal(goal, input, t)
      changes == computeChanges(goal, updatedGoal, DefaultFields)
      doSnap == /\ ("progress" \in DOMAIN input \/ "status" \in DOMAIN input)
                /\ Len(changes) > 0
      snap == createSnapshot(updatedGoal, GenId(t, r), t, generateSnapshotEvent(input),
                             "auto_progress", changes)
  IN [ goal |-> IF doSnap THEN [updatedGoal EXCEPT !.snapshots = Append(@, snap.id)]
                ELSE updatedGoal,
       snap |-> snap,
       doSnap |-> doSnap ]

\* variant of the goal write that takes the snapshots list from the goal
\* stored now and appends its own snapshot id to it
saveGoalMerged(S, goal) ==
  LET cur == loadGoal(S, goal.id)
  IN [S EXCEPT !.active =
        Put(@, goal.id,
            [goal EXCEPT !.snapshots = IF Len(goal.snapshots) > 0
                                       THEN Append(cur.snapshots, Last(goal.snapshots))
                                       ELSE cur.snapshots])]

\* the goal write of a process running update: saveGoal(updatedGoal)
writeUpdatedGoal(S, goal) == saveGoal(S, goal)

\* ---------------------------------------------------------- writer processes
\* ------------------------------------------------------ session-service.ts
\* createEmptySessionState(): no last session, active_context null
createEmptySessionState == [last_session |-> None, goal |-> NoId]

\* startSession(sessionId) and endSession(sessionId, summary): the stored
\* state with the session id replaced; the active goal stays
startSession(sess, sessionId) == [sess EXCEPT !.last_session = sessionId]
endSession(sess, sessionId) == [sess EXCEPT !.last_session = sessionId]

\* --------------------------------------------------- hooks/session-start.ts
\* the try block of main(): startSession, generateStartContext, console.log;
\* fail names the call that throws, if any; a payload that does not parse
\* is the session id "unknown"
sessionStartBody(sess, sessionId, fail) ==
  IF fail = "startSession" THEN [session |-> sess, threw |-> TRUE, log |-> <<>>]
  ELSE LET s1 == startSession(sess, sessionId)
       IN IF fail = "generateStartContext"
          THEN [session |-> s1, threw |-> TRUE, log |-> <<>>]
          ELSE [session |-> s1, threw |-> FALSE, log |-> <<"context">>]

\* main(): catch (error) { console.error(...) }
sessionStartMain(sess, sessionId, fail) ==
  LET body == sessionStartBody(sess, sessionId, fail)
  IN [ session |-> body.session,
       outcome |-> "completed",
       log |-> IF body.threw THEN body.log \o <<"SessionStart error">> ELSE body.log ]

\* ----------------------------------------------------- hooks/session-end.ts
\* the try block of main(): return on a payload that does not parse, else
\* endSession, getSessionState, then the snapshot of the active goal; fail
\* names the call that throws; sessionId = None is the payload that does
\* not parse
sessionEndBody(S, sess, sessionId, fail, t, r) ==
  IF sessionId = None
  THEN [S |-> S, session |-> sess, threw |-> FALSE, log |-> <<"No valid payload">>]
  ELSE IF fail = "endSession" THEN [S |-> S, session |-> sess, threw |-> TRUE, log |-> <<>>]
  ELSE
    LET s1 == endSession(sess, sessionId)
    IN IF s1.goal = NoId
       THEN [S |-> S, session |-> s1, threw |-> FALSE, log |-> <<"Session state saved">>]
       ELSE IF fail = "loadGoal" THEN [S |-> S, session |-> s1, threw |-> TRUE, log |-> <<>>]
       ELSE IF ~GoalExists(S, s1.goal)
       THEN [S |-> S, session |-> s1, threw |-> FALSE, log |-> <<"Session state saved">>]
       ELSE
         LET goal == loadGoal(S, s1.goal)
             snap == createSnapshot(goal, GenId(t, r), t, "Session ended", "session_end", <<>>)
             goal2 == [goal EXCEPT !.snapshots = Append(@, snap.id)]
         IN IF fail = "saveSnapshot"
            THEN [S |-> S, session |-> s1, threw |-> TRUE, log |-> <<>>]
            ELSE IF fail = "saveGoal"
            THEN [S |-> saveSnapshot(S, snap), session |-> s1, threw |-> TRUE, log |-> <<>>]
            ELSE [S |-> saveGoal(saveSnapshot(S, snap), goal2), session |-> s1,
                  threw |-> FALSE, log |-> <<"Session state saved">>]

\* main() without the catch: a failure leaves main as a rejection
sessionEndMainNoCatch(S, sess, sessionId, fail, t, r) ==
  LET body == sessionEndBody(S, sess, sessionId, fail, t, r)
  IN [ S |-> body.S, session |-> body.session,
       outcome |-> IF body.threw THEN "rejected" ELSE "completed",
       log |-> body.log ]

\* main(): catch (error) { console.error(...) }
sessionEndMain(S, sess, sessionId, fail, t, r) ==
  LET body == sessionEndBody(S, sess, sessionId, fail, t, r)
  IN [ S |-> body.S, session |-> body.session,
       outcome |-> "completed",
       log |-> IF body.threw THEN body.log \o <<"SessionEnd error">> ELSE body.log ]

\* no walk is running
IdleWalk == [fn |-> "none", pc |-> "idle", start |-> NoId, current |-> NoId,
             out |-> <<>>, stack |-> <<>>]

Writers == {1, 2}
IdleWriter == [pc |-> "idle", gid |-> NoId, input |-> <<>>, goal |-> NoGoal,
               previousStatus |-> None, snap |-> NoGoal, doSnap |-> FALSE,
               loadedAt |-> 0, savedAt |-> 0]
\* the patch each process applies
WriterPatch(p) == IF p = 1 THEN [progress |-> 5] ELSE [status |-> "paused"]

\* ------------------------------------------------------------------ actions
GoalIdSet == { GenId(t, r) : t \in Seconds, r \in Rnd }
StoredIds == (DOMAIN active) \cup (DOMAIN archived)
\* an id no goal ever gets, for calls on a goal that is not stored
GhostId == GenId(MaxTime + 1, 0)
Targets == StoredIds \cup {GhostId}

NoOp == [op |-> "init", gid |-> NoId, bid |-> NoBranch, ret |-> "none", dflt |-> TRUE]
Op(name, gid, bid, ret, dflt) ==
  [op |-> name, gid |-> gid, bid |-> bid, ret |-> ret, dflt |-> dflt]
Ret(found) == IF found THEN "ok" ELSE "null"

Init ==
  /\ now = 0
  /\ active = NoFiles
  /\ archived = NoFiles
  /\ snapFiles = NoFiles
  /\ branchFiles = NoFiles
  /\ projects = NoFiles
  /\ index = NoFiles
  /\ last = NoOp
  /\ ops = 0
  /\ procs = [p \in Writers |-> IdleWriter]
  /\ walk = IdleWalk
  /\ session = createEmptySessionState

Tick ==
  /\ now < MaxTime
  /\ now' = now + 1
  /\ UNCHANGED <<active, archived, snapFiles, branchFiles, projects, index, last, ops, procs, walk, session>>

Create(input, autoSnapshot, autoIndex) ==
  /\ \E rg \in Rnd, rs \in Rnd :
       \E res \in { create(Store, input, autoSnapshot, autoIndex, now, rg, rs) } :
          /\ Commit(res.S)
          /\ last' = Op("create", res.goal.id, NoBranch, "ok", autoSnapshot /\ autoIndex)
  /\ ops' = ops + 1
  /\ UNCHANGED now

Update(gid, input, autoSnapshot, autoIndex) ==
  /\ \E r \in Rnd :
       \E res \in { update(Store, gid, input, autoSnapshot, autoIndex, None, now, r) } :
          /\ Commit(res.S)
          /\ last' = Op("update", gid, NoBranch, Ret(res.found), autoSnapshot /\ autoIndex)
  /\ ops' = ops + 1
  /\ UNCHANGED now

Archive(gid, autoIndex) ==
  /\ \E res \in { archive(Store, gid, autoIndex, now) } :
        /\ Commit(res.S)
        /\ last' = Op("archive", gid, NoBranch, IF res.found THEN "true" ELSE "false",
                      autoIndex)
  /\ ops' = ops + 1
  /\ UNCHANGED now

Complete(gid, hasSummary) ==
  /\ \E r1 \in Rnd, r2 \in Rnd :
       \E res \in { complete(Store, gid, hasSummary, now, r1, r2) } :
          /\ Commit(res.S)
          /\ last' = Op("complete", gid, NoBranch, Ret(res.found), TRUE)
  /\ ops' = ops + 1
  /\ UNCHANGED now

Abandon(gid) ==
  /\ \E r \in Rnd :
       \E res \in { abandon(Store, gid, now, r) } :
          /\ Commit(res.S)
          /\ last' = Op("abandon", gid, NoBranch, Ret(res.found), TRUE)
  /\ ops' = ops + 1
  /\ UNCHANGED now

Pause(gid) ==
  /\ \E r \in Rnd :
       \E res \in { pause(Store, gid, now, r) } :
          /\ Commit(res.S)
          /\ last' = Op("pause", gid, NoBranch, Ret(res.found), TRUE)
  /\ ops' = ops + 1
  /\ UNCHANGED now

Resume(gid) ==
  /\ \E r \in Rnd :
       \E res \in { resume(Store, gid, now, r) } :
          /\ Commit(res.S)
          /\ last' = Op("resume", gid, NoBranch, Ret(res.found), TRUE)
  /\ ops' = ops + 1
  /\ UNCHANGED now

SetProgress(gid, p) ==
  /\ \E r \in Rnd :
       \E res \in { setProgress(Store, gid, p, now, r) } :
          /\ Commit(res.S)
          /\ last' = [op |-> "setProgress", gid |-> gid, bid |-> NoBranch,
                      ret |-> Ret(res.found), dflt |-> TRUE, arg |-> p]
  /\ ops' = ops + 1
  /\ UNCHANGED now

CreateManualSnapshot(gid) ==
  /\ \E r \in Rnd :
       \E res \in { createManualSnapshot(Store, gid, now, r) } :
          /\ Commit(res.S)
          /\ last' = Op("createManualSnapshot", gid, NoBranch, Ret(res.found), TRUE)
  /\ ops' = ops + 1
  /\ UNCHANGED now

\* description = '' when the caller gives none
CreateGoalBranch(gid, name) ==
  /\ \E r \in Rnd :
       \E res \in { createGoalBranch(Store, gid, name, "", now, r) } :
          /\ Commit(res.S)
          /\ last' = Op("createGoalBranch", gid, generateBranchId(name), Ret(res.found), TRUE)
  /\ ops' = ops + 1
  /\ UNCHANGED now

CreateGoalBranchDescribed(gid, name, description) ==
  /\ \E r \in Rnd :
       \E res \in { createGoalBranch(Store, gid, name, description, now, r) } :
          /\ Commit(res.S)
          /\ last' = [op |-> "createGoalBranch", gid |-> gid,
                      bid |-> generateBranchId(name), ret |-> Ret(res.found),
                      dflt |-> FALSE, name |-> name, description |-> description]
  /\ ops' = ops + 1
  /\ UNCHANGED now

SwitchBranch(gid, bid) ==
  /\ \E res \in { switchBranch(Store, gid, bid) } :
        /\ Commit(res.S)
        /\ last' = Op("switchBranch", gid, bid, Ret(res.found), TRUE)
  /\ ops' = ops + 1
  /\ UNCHANGED now

AbandonGoalBranch(gid, bid, reason) ==
  /\ \E res \in { abandonGoalBranch(Store, gid, bid, reason, now) } :
        /\ Commit(res.S)
        /\ last' = Op("abandonGoalBranch", gid, bid, Ret(res.found), TRUE)
  /\ ops' = ops + 1
  /\ UNCHANGED now

\* abandonGoalBranch with the reason kept for the record of the call
AbandonGoalBranchFor(gid, bid, reason) ==
  /\ \E res \in { abandonGoalBranch(Store, gid, bid, reason, now) } :
        /\ Commit(res.S)
        /\ last' = [op |-> "abandonGoalBranch", gid |-> gid, bid |-> bid,
                    ret |-> Ret(res.found), dflt |-> TRUE, reason |-> reason]
  /\ ops' = ops + 1
  /\ UNCHANGED now

RegisterProject(input) ==
  /\ \E S \in { registerProject(Store, input, now) } : Commit(S)
  /\ last' = Op("registerProject", NoId, NoBranch, "ok", TRUE)
  /\ ops' = ops + 1
  /\ UNCHANGED now

SessionEnd(gid) ==
  /\ \E r \in Rnd :
       \E res \in { sessionEndSnapshot(Store, gid, now, r) } :
          /\ Commit(res.S)
          /\ last' = Op("sessionEnd", gid, NoBranch, Ret(res.found), TRUE)
  /\ ops' = ops + 1
  /\ UNCHANGED now

GetIndex ==
  /\ \E res \in { getIndex(Store, now) } :
        /\ Commit(res.S)
        /\ last' = [op |-> "getIndex", gid |-> NoId, bid |-> NoBranch, ret |-> "ok",
                    dflt |-> TRUE, value |-> res.value]
  /\ ops' = ops + 1
  /\ UNCHANGED now

\* rebuildIndex() run to its end
RebuildIndex ==
  /\ Commit(rebuildIndex(Store, now))
  /\ last' = Op("rebuildIndex", NoId, NoBranch, "ok", TRUE)
  /\ ops' = ops + 1
  /\ UNCHANGED now

\* rebuildIndex() whose process is stopped inside saveIndex
RebuildIndexInterrupted ==
  /\ \E k \in 0..(Len(IndexKeys) - 1) :
        Commit(saveIndexInterrupted(Store, buildIndex(loadAllGoals(Store, TRUE), now), k))
  /\ last' = Op("rebuildIndex", NoId, NoBranch, "interrupted", TRUE)
  /\ ops' = ops + 1
  /\ UNCHANGED now

\* process p enters update: loadGoal, updateGoal, createSnapshot
UpdateLoad(p, gid) ==
  /\ procs[p].pc = "idle"
  /\ GoalExists(Store, gid)
  /\ \E r \in Rnd :
       \E plan \in { updatePlan(loadGoal(Store, gid), WriterPatch(p), now, r) } :
          procs' = [procs EXCEPT ![p] =
                      [pc |-> "loaded", gid |-> gid, input |-> WriterPatch(p),
                       goal |-> plan.goal, previousStatus |-> loadGoal(Store, gid).status,
                       snap |-> plan.snap, doSnap |-> plan.doSnap,
                       loadedAt |-> ops + 1, savedAt |-> 0]]
  /\ last' = Op("update:load", gid, NoBranch, "ok", TRUE)
  /\ ops' = ops + 1
  /\ UNCHANGED <<now, active, archived, snapFiles, branchFiles, projects, index>>
  /\ UNCHANGED <<walk, session>>

\* saveSnapshot(snapshot), when there is one
UpdateSaveSnapshot(p) ==
  /\ procs[p].pc = "loaded"
  /\ Write(IF procs[p].doSnap THEN saveSnapshot(Store, procs[p].snap) ELSE Store)
  /\ procs' = [procs EXCEPT ![p].pc = "snapshotSaved"]
  /\ last' = Op("update:saveSnapshot", procs[p].gid, NoBranch, "ok", TRUE)
  /\ ops' = ops + 1
  /\ UNCHANGED now
  /\ UNCHANGED <<walk, session>>

\* saveGoal(updatedGoal)
UpdateSaveGoal(p) ==
  /\ procs[p].pc = "snapshotSaved"
  /\ Write(writeUpdatedGoal(Store, procs[p].goal))
  /\ procs' = [procs EXCEPT ![p].pc = "goalSaved", ![p].savedAt = ops + 1]
  /\ last' = Op("update:saveGoal", procs[p].gid, NoBranch, "ok", TRUE)
  /\ ops' = ops + 1
  /\ UNCHANGED now
  /\ UNCHANGED <<walk, session>>

\* the project lists when the status changed, then rebuildIndex()
UpdateFinish(p) ==
  /\ procs[p].pc = "goalSaved"
  /\ LET goal == procs[p].goal
         project == findProjectByPath(Store, goal.project)
         S1 == IF /\ "status" \in DOMAIN procs[p].input
                  /\ procs[p].input.status # procs[p].previousStatus
                  /\ project.id # NoProject.id
               THEN saveProject(Store, addGoalToProject(project, goal.id,
                                                       procs[p].input.status, now))
               ELSE Store
     IN Write(rebuildIndex(S1, now))
  /\ procs' = [procs EXCEPT ![p].pc = "done"]
  /\ last' = Op("update:done", procs[p].gid, NoBranch, "ok", TRUE)
  /\ ops' = ops + 1
  /\ UNCHANGED now
  /\ UNCHANGED <<walk, session>>

\* addGoalToProject applied to a stored project, and the result stored
AddGoalToProject(k, goalId, status) ==
  /\ Commit(saveProject(Store, addGoalToProject(projects[k], goalId, status, now)))
  /\ last' = Op("addGoalToProject", goalId, NoBranch, status, TRUE)
  /\ ops' = ops + 1
  /\ UNCHANGED now

\* --------------------------------------------------------------- inputs
DeleteGoal(gid) ==
  /\ \E res \in { deleteGoal(Store, gid) } :
       /\ Commit(res.S)
       /\ last' = Op("deleteGoal", gid, NoBranch,
                     IF res.deleted THEN "true" ELSE "false", TRUE)
  /\ ops' = ops + 1
  /\ UNCHANGED now

GoalInput(project, parent, tags) ==
  [ title |-> "t", current_state |-> "s0", desired_state |-> "s1",
    project |-> project, parent |-> parent, tags |-> tags ]

\* ------------------------------------------- snapshot history specification
NextSnap ==
  \/ Tick
  \/ ops < SnapOps /\ \E a \in BOOLEAN : Create(GoalInput(PathA, NoId, <<>>), a, TRUE)
  \/ ops < SnapOps /\ \E g \in Targets, p \in {5, ProgressOne} :
                        Update(g, [progress |-> p], TRUE, TRUE)
  \/ ops < SnapOps /\ \E g \in Targets, h \in BOOLEAN : Complete(g, h)
  \/ ops < SnapOps /\ \E g \in Targets : CreateManualSnapshot(g)
  \/ ops < SnapOps /\ \E g \in Targets : CreateGoalBranch(g, NameX)
  \/ ops < SnapOps /\ \E g \in Targets : SessionEnd(g)

SpecSnap == Init /\ [][NextSnap]_vars

\* ------------------------------------------------ project lists specification
ProjectInput(name, path) == [name |-> name, path |-> path, auto_detect |-> TRUE]

NextProject ==
  \/ ops < ProjectOps /\ \E n \in {<<"p">>, <<"q">>}, p \in ProjectPaths :
                           RegisterProject(ProjectInput(n, p))
  \/ ops < ProjectOps /\ \E p \in ProjectPaths : Create(GoalInput(p, NoId, <<>>), FALSE, TRUE)
  \/ ops < ProjectOps /\ \E g \in Targets, st \in Statuses :
                           Update(g, [status |-> st], FALSE, TRUE)

SpecProject == Init /\ [][NextProject]_vars

\* ------------------------------------------- index and archive specification
NextIndex ==
  \/ ops < IndexOps /\ Create(GoalInput(PathA, NoId, <<"t1">>), TRUE, TRUE)
  \/ ops < IndexOps /\ \E g \in Targets, i \in BOOLEAN :
                         Update(g, [status |-> "paused"], TRUE, i)
  \/ ops < IndexOps /\ \E g \in Targets : Archive(g, TRUE)
  \/ ops < IndexOps /\ \E g \in Targets : CreateGoalBranch(g, NameX)
  \/ ops < IndexOps /\ \E g \in Targets :
                         AbandonGoalBranch(g, generateBranchId(NameX), "r1")

SpecIndex == Init /\ [][NextIndex]_vars

\* ------------------------------------------------- branch specification
\* a branch id no name of BranchNames produces
MissingBranch == <<"branch", <<"q">>>>
BranchIds == { generateBranchId(n) : n \in BranchNames }

NextBranch ==
  \/ ops < BranchOps /\ Create(GoalInput(PathA, NoId, <<>>), TRUE, TRUE)
  \/ ops < BranchOps /\ \E g \in StoredIds, n \in BranchNames : CreateGoalBranch(g, n)
  \/ ops < BranchOps /\ \E g \in StoredIds, b \in BranchIds, rs \in Reasons :
                          AbandonGoalBranch(g, b, rs)

SpecBranch == Init /\ [][NextBranch]_vars

\* ------------------------------------------ branch switching specification
NextSwitch ==
  \/ ops < SwitchOps /\ Create(GoalInput(PathA, NoId, <<>>), TRUE, TRUE)
  \/ ops < SwitchOps /\ \E g \in StoredIds, n \in BranchNames : CreateGoalBranch(g, n)
  \/ ops < SwitchOps /\ \E g \in StoredIds, b \in BranchIds \cup {MissingBranch} :
                          SwitchBranch(g, b)
  \/ ops < SwitchOps /\ \E g \in StoredIds, b \in BranchIds, rs \in Reasons :
                          AbandonGoalBranch(g, b, rs)

SpecSwitch == Init /\ [][NextSwitch]_vars

\* --------------------------------------------- status and progress specification
NextStatus ==
  \/ ops < StatusOps /\ Create(GoalInput(PathA, NoId, <<>>), TRUE, TRUE)
  \/ ops < StatusOps /\ \E g \in StoredIds :
                          \/ \E p \in ProgressInputs : Update(g, [progress |-> p], TRUE, TRUE)
                          \/ \E st \in Statuses : Update(g, [status |-> st], TRUE, TRUE)
  \/ ops < StatusOps /\ \E g \in StoredIds, p \in ProgressInputs : SetProgress(g, p)
  \/ ops < StatusOps /\ \E g \in StoredIds, h \in BOOLEAN : Complete(g, h)
  \/ ops < StatusOps /\ \E g \in StoredIds : Pause(g)
  \/ ops < StatusOps /\ \E g \in StoredIds : Resume(g)
  \/ ops < StatusOps /\ \E g \in StoredIds : Abandon(g)

SpecStatus == Init /\ [][NextStatus]_vars

\* ------------------------------------------------ goal creation specification
\* CreateGoalInput values; the code accepts every one of them
CreateGoalInputs ==
  { [ title |-> "t", current_state |-> cs, desired_state |-> "s1",
      project |-> p, parent |-> NoId, tags |-> tg ] :
      cs \in {"s0", "s1"}, p \in ProjectPaths, tg \in {<<>>, <<"t1">>} }

NextCreate ==
  \/ ops < CreateOps /\ \E input \in CreateGoalInputs : Create(input, FALSE, FALSE)

SpecCreate == Init /\ [][NextCreate]_vars

\* --------------------------------------- creation from any input specification
\* inputs whose required fields may be blank ('' and the empty path)
BlankableInputs ==
  { [ title |-> ti, current_state |-> cs, desired_state |-> ds,
      project |-> p, parent |-> NoId, tags |-> <<>> ] :
      ti \in {"", "t"}, cs \in {"", "s0"}, ds \in {"", "s1"}, p \in {<<>>, PathA} }

NextBlank ==
  \/ ops < CreateOps /\ \E input \in BlankableInputs : Create(input, TRUE, TRUE)

SpecBlank == Init /\ [][NextBlank]_vars

\* ------------------------------------------- branch creation specification
NextParent ==
  \/ ops < ParentOps /\ Create(GoalInput(PathA, NoId, <<>>), TRUE, TRUE)
  \/ ops < ParentOps /\ \E g \in StoredIds, n \in {NameX, NameMain} : CreateGoalBranch(g, n)
  \/ ops < ParentOps /\ \E g \in StoredIds, b \in {generateBranchId(NameX), MissingBranch} :
                          SwitchBranch(g, b)

SpecParent == Init /\ [][NextParent]_vars

\* ------------------------------------------ absent target specification
\* every write operation, on stored goals and on a goal id that is not stored
NextAbsent ==
  \/ ops < AbsentOps /\ Create(GoalInput(PathA, NoId, <<>>), TRUE, FALSE)
  \/ ops < AbsentOps /\ \E g \in Targets : Update(g, [progress |-> 5], TRUE, TRUE)
  \/ ops < AbsentOps /\ \E g \in Targets : Complete(g, TRUE)
  \/ ops < AbsentOps /\ \E g \in Targets : Abandon(g)
  \/ ops < AbsentOps /\ \E g \in Targets : Pause(g)
  \/ ops < AbsentOps /\ \E g \in Targets : Resume(g)
  \/ ops < AbsentOps /\ \E g \in Targets : SetProgress(g, 5)
  \/ ops < AbsentOps /\ \E g \in Targets : CreateManualSnapshot(g)
  \/ ops < AbsentOps /\ \E g \in Targets : CreateGoalBranch(g, NameX)
  \/ ops < AbsentOps /\ \E g \in Targets : SwitchBranch(g, generateBranchId(NameX))
  \/ ops < AbsentOps /\ \E g \in Targets :
                          AbandonGoalBranch(g, generateBranchId(NameX), "r1")
  \/ ops < AbsentOps /\ \E g \in Targets : Archive(g, TRUE)

SpecAbsent == Init /\ [][NextAbsent]_vars

\* ------------------------------------------ state change specification
\* UpdateGoalInput patches of one tracked field each
UpdatePatches ==
  { [current_state |-> "s2"], [desired_state |-> "s3"], [progress |-> 5],
    [status |-> "paused"], [title |-> "u"] }

NextChange ==
  \/ ops < ChangeOps /\ Create(GoalInput(PathA, NoId, <<>>), TRUE, TRUE)
  \/ ops < ChangeOps /\ \E g \in StoredIds, patch \in UpdatePatches :
                          Update(g, patch, TRUE, TRUE)

SpecChange == Init /\ [][NextChange]_vars

\* ------------------------------------------ index reading specification
NextGetIndex ==
  \/ Tick
  \/ ops < GetIndexOps /\ \E i \in BOOLEAN : Create(GoalInput(PathA, NoId, <<"t1">>), FALSE, i)
  \/ ops < GetIndexOps /\ \E g \in StoredIds : Update(g, [status |-> "paused"], FALSE, FALSE)
  \/ ops < GetIndexOps /\ \E g \in StoredIds : Archive(g, FALSE)
  \/ ops < GetIndexOps /\ GetIndex

SpecGetIndex == Init /\ [][NextGetIndex]_vars

\* ------------------------------------------ index building specification
\* goals with tags and parents, so that every part of the index is filled
NextBuild ==
  \/ Tick
  \/ ops < BuildOps /\ \E par \in StoredIds \cup {NoId} :
                         Create(GoalInput(PathA, par, IF par = NoId THEN <<"t1">>
                                                      ELSE <<"t1", "t2">>), FALSE, TRUE)
  \/ ops < BuildOps /\ \E g \in StoredIds : Update(g, [status |-> "paused"], FALSE, TRUE)
  \/ ops < BuildOps /\ \E g \in StoredIds : Archive(g, TRUE)

SpecBuild == Init /\ [][NextBuild]_vars

\* ------------------------------------- interrupted rebuild specification
NextCrash ==
  \/ ops < CrashOps /\ Create(GoalInput(PathA, NoId, <<"t1">>), FALSE, FALSE)
  \/ ops < CrashOps /\ \E g \in StoredIds : Update(g, [status |-> "paused"], FALSE, FALSE)
  \/ ops < CrashOps /\ RebuildIndex
  \/ ops < CrashOps /\ RebuildIndexInterrupted

SpecCrash == Init /\ [][NextCrash]_vars

\* ------------------------------------- concurrent writers specification
\* one goal, and two processes that each run update on it once
NextRace ==
  \/ StoredIds = {} /\ Create(GoalInput(PathA, NoId, <<>>), TRUE, TRUE)
  \/ \E p \in Writers, g \in StoredIds : UpdateLoad(p, g)
  \/ \E p \in Writers : UpdateSaveSnapshot(p)
  \/ \E p \in Writers : UpdateSaveGoal(p)
  \/ \E p \in Writers : UpdateFinish(p)

SpecRace == Init /\ [][NextRace]_vars

\* ------------------------------------- project membership specification
\* any project record: each list is any of these id lists, repeats included
ListInputs ==
  { <<>>, <<GenId(0, 0)>>, <<GenId(0, 1)>>, <<GenId(0, 0), GenId(0, 1)>>,
    <<GenId(0, 1), GenId(0, 0)>>, <<GenId(0, 0), GenId(0, 0)>> }
ListStatuses == {"active", "paused", "completed", "abandoned"}

InitAdd ==
  /\ now = 0
  /\ active = NoFiles
  /\ archived = NoFiles
  /\ snapFiles = NoFiles
  /\ branchFiles = NoFiles
  /\ \E a \in ListInputs, b \in ListInputs, c \in ListInputs, d \in ListInputs :
       LET fresh == createProject(ProjectInput(<<"p">>, PathA), 0)
           proj == [fresh EXCEPT !.active_goals = a, !.paused_goals = b,
                                 !.completed_goals = c, !.abandoned_goals = d]
       IN projects = Put(NoFiles, proj.id, proj)
  /\ index = NoFiles
  /\ last = NoOp
  /\ ops = 0
  /\ procs = [p \in Writers |-> IdleWriter]
  /\ walk = IdleWalk
  /\ session = createEmptySessionState

NextAdd ==
  \/ Tick
  \/ ops < AddOps /\ \E k \in DOMAIN projects, g \in {GenId(0, 0), GenId(0, 1)},
                        st \in ListStatuses : AddGoalToProject(k, g, st)

SpecAdd == InitAdd /\ [][NextAdd]_vars

\* ------------------------------------------ progress setting specification
\* progress arguments below, at and above the ends of the range, in tenths
ClampInputs == {-3, 0, 5, ProgressOne, 17}

NextClamp ==
  \/ ops < ClampOps /\ Create(GoalInput(PathA, NoId, <<>>), TRUE, TRUE)
  \/ ops < ClampOps /\ \E g \in Targets, p \in ClampInputs : SetProgress(g, p)

SpecClamp == Init /\ [][NextClamp]_vars

\* ------------------------------------------ change detection specification
\* context objects: the same two keys in either insertion order, and one
\* with another value
ContextInputs ==
  { << <<"primary_files", <<"f">> >>, <<"learnings", <<>> >> >>,
    << <<"learnings", <<>> >>, <<"primary_files", <<"f">> >> >>,
    << <<"primary_files", <<"g">> >>, <<"learnings", <<>> >> >> }

GoalLikes ==
  [ progress : {0, 5}, status : {"active", "paused"}, current_state : {"s0"},
    desired_state : {"s1", "s3"}, context : ContextInputs ]

FieldSets ==
  { DefaultFields, <<"context">>, <<"status", "context", "progress">>, <<>> }

InitCompare ==
  /\ now = 0
  /\ active = NoFiles
  /\ archived = NoFiles
  /\ snapFiles = NoFiles
  /\ branchFiles = NoFiles
  /\ projects = NoFiles
  /\ index = NoFiles
  /\ \E x \in GoalLikes, y \in GoalLikes :
       last = [op |-> "input", before |-> x, after |-> y, fields |-> <<>>, value |-> <<>>]
  /\ ops = 0
  /\ procs = [p \in Writers |-> IdleWriter]
  /\ walk = IdleWalk
  /\ session = createEmptySessionState

ComputeChanges(fields) ==
  /\ last' = [op |-> "computeChanges", before |-> last.before, after |-> last.after,
              fields |-> fields,
              value |-> computeChanges(last.before, last.after, fields)]
  /\ ops' = ops + 1
  /\ UNCHANGED <<now, active, archived, snapFiles, branchFiles, projects, index, procs, walk, session>>

NextCompare ==
  ops < CompareOps /\ \E fields \in FieldSets : ComputeChanges(fields)

SpecCompare == InitCompare /\ [][NextCompare]_vars

\* ------------------------------------------------- deletion specification
NextDelete ==
  \/ ops < DeleteOps /\ Create(GoalInput(PathA, NoId, <<>>), TRUE, TRUE)
  \/ ops < DeleteOps /\ \E g \in Targets : Archive(g, TRUE)
  \/ ops < DeleteOps /\ \E g \in Targets : DeleteGoal(g)

SpecDelete == Init /\ [][NextDelete]_vars

\* ------------------------------------------- branch id collision specification
NextCollide ==
  \/ ops < CollideOps /\ Create(GoalInput(PathA, NoId, <<>>), TRUE, TRUE)
  \/ ops < CollideOps /\ \E g \in StoredIds :
                           \/ CreateGoalBranchDescribed(g, NameX, "d1")
                           \/ CreateGoalBranchDescribed(g, NameXUpper, "d2")
  \/ ops < CollideOps /\ \E g \in StoredIds : SwitchBranch(g, generateBranchId(NameX))
  \/ ops < CollideOps /\ \E g \in StoredIds :
                           AbandonGoalBranch(g, generateBranchId(NameX), "r1")

SpecCollide == Init /\ [][NextCollide]_vars

\* ------------------------------------------------ graph walk specification
\* let current = getParentGoal(goalId)
GetAncestorsCall(goalId) ==
  /\ walk.pc = "idle"
  /\ \E res \in { getParentGoal(Store, goalId, now) } :
       /\ Write(res.S)
       /\ walk' = [fn |-> "getAncestors", pc |-> "loop", start |-> goalId,
                   current |-> res.value, out |-> <<>>, stack |-> <<>>]
  /\ UNCHANGED <<now, last, ops, procs, session>>

\* one test of while (current) and, when it passes, one run of the loop body
GetAncestorsLoop ==
  /\ walk.fn = "getAncestors" /\ walk.pc = "loop"
  /\ IF walk.current = NoId
     THEN /\ walk' = [walk EXCEPT !.pc = "done"]
          /\ UNCHANGED <<active, archived, snapFiles, branchFiles, projects, index>>
     ELSE /\ Len(walk.out) < MaxWalk
          /\ \E res \in { getParentGoal(Store, walk.current, now) } :
               /\ Write(res.S)
               /\ walk' = [walk EXCEPT !.out = ancestorsPush(@, walk.current),
                                       !.current = res.value]
  /\ UNCHANGED <<now, last, ops, procs, session>>

\* the outermost call: const children = getChildGoals(goalId)
GetDescendantsCall(goalId) ==
  /\ walk.pc = "idle"
  /\ \E res \in { getChildGoals(Store, goalId, now) } :
       /\ Write(res.S)
       /\ walk' = [fn |-> "getDescendants", pc |-> "loop", start |-> goalId,
                   current |-> NoId, out |-> <<>>,
                   stack |-> << [children |-> res.value, i |-> 1] >>]
  /\ UNCHANGED <<now, last, ops, procs, session>>

\* one step of the innermost call: return when its children are used up,
\* otherwise push the next child and call getDescendants(child); the
\* pushes of all calls, in order, are the outermost call's result
GetDescendantsStep ==
  /\ walk.fn = "getDescendants" /\ walk.pc = "loop"
  /\ LET depth == Len(walk.stack)
         top == walk.stack[depth]
     IN IF top.i > Len(top.children)
        THEN /\ walk' = [walk EXCEPT !.stack = SubSeq(@, 1, depth - 1),
                                     !.pc = IF depth = 1 THEN "done" ELSE "loop"]
             /\ UNCHANGED <<active, archived, snapFiles, branchFiles, projects, index>>
        ELSE /\ depth < MaxWalk
             /\ \E res \in { getChildGoals(Store, top.children[top.i], now) } :
                  /\ Write(res.S)
                  /\ walk' = [walk EXCEPT
                                !.out = Append(@, top.children[top.i]),
                                !.stack = Append([@ EXCEPT ![depth].i = @ + 1],
                                                 [children |-> res.value, i |-> 1])]
  /\ UNCHANGED <<now, last, ops, procs, session>>

\* three goal records whose parent fields were written by hand
WalkIds == {GenId(0, 0), GenId(0, 1), GenId(1, 0)}
WalkParents == WalkIds \cup {NoId, GhostId}

InitWalk ==
  /\ now = 0
  /\ \E par \in [WalkIds -> WalkParents] :
       LET goals == [id \in WalkIds |-> createGoal(GoalInput(PathA, par[id], <<>>), id, 0)]
           S == [ active |-> goals, archived |-> NoFiles, snapFiles |-> NoFiles,
                  branchFiles |-> NoFiles, projects |-> NoFiles, index |-> NoFiles ]
           S1 == rebuildIndex(S, 0)
       IN /\ active = S1.active
          /\ index = S1.index
  /\ archived = NoFiles
  /\ snapFiles = NoFiles
  /\ branchFiles = NoFiles
  /\ projects = NoFiles
  /\ last = NoOp
  /\ ops = 0
  /\ procs = [p \in Writers |-> IdleWriter]
  /\ walk = IdleWalk
  /\ session = createEmptySessionState

NextWalk ==
  \/ \E id \in WalkIds \cup {GhostId} : GetAncestorsCall(id)
  \/ GetAncestorsLoop
  \/ \E id \in WalkIds \cup {GhostId} : GetDescendantsCall(id)
  \/ GetDescendantsStep

\* a loop or a recursion that can take a step does take it
SpecWalk ==
  InitWalk /\ [][NextWalk]_vars /\ WF_vars(GetAncestorsLoop) /\ WF_vars(GetDescendantsStep)

\* ------------------------------------------------------ hook specification
\* setActiveGoal(goalId): throws when the goal is not stored
SetActiveGoal(gid) ==
  /\ GoalExists(Store, gid)
  /\ session' = [session EXCEPT !.goal = gid]
  /\ last' = Op("setActiveGoal", gid, NoBranch, "ok", TRUE)
  /\ ops' = ops + 1
  /\ UNCHANGED <<now, active, archived, snapFiles, branchFiles, projects, index, procs, walk>>

SessionIds == {"s1", "unknown"}
StartFailures == {"none", "startSession", "generateStartContext"}
EndFailures == {"none", "endSession", "loadGoal", "saveSnapshot", "saveGoal"}

SessionStartHook(sessionId, fail) ==
  /\ \E res \in { sessionStartMain(session, sessionId, fail) } :
       /\ session' = res.session
       /\ last' = [op |-> "sessionStartHook", gid |-> session.goal, bid |-> NoBranch,
                   ret |-> res.outcome, dflt |-> TRUE, fail |-> fail, log |-> res.log,
                      sid |-> sessionId]
  /\ ops' = ops + 1
  /\ UNCHANGED <<now, active, archived, snapFiles, branchFiles, projects, index, procs, walk>>

SessionEndHook(sessionId, fail) ==
  /\ \E r \in Rnd :
       \E res \in { sessionEndMain(Store, session, sessionId, fail, now, r) } :
          /\ Write(res.S)
          /\ session' = res.session
          /\ last' = [op |-> "sessionEndHook", gid |-> session.goal, bid |-> NoBranch,
                      ret |-> res.outcome, dflt |-> TRUE, fail |-> fail, log |-> res.log,
                      sid |-> sessionId]
  /\ ops' = ops + 1
  /\ UNCHANGED <<now, procs, walk>>

NextHook ==
  \/ ops < HookOps /\ Create(GoalInput(PathA, NoId, <<>>), TRUE, TRUE)
  \/ ops < HookOps /\ \E g \in Targets : SetActiveGoal(g)
  \/ ops < HookOps /\ \E sid \in SessionIds, f \in StartFailures : SessionStartHook(sid, f)
  \/ ops < HookOps /\ \E sid \in SessionIds \cup {None}, f \in EndFailures :
                        SessionEndHook(sid, f)
  \/ ops < HookOps /\ \E g \in Targets : Archive(g, TRUE)

SpecHook == Init /\ [][NextHook]_vars

\* ------------------------------------------- branch abandonment specification
NextAbandon ==
  \/ ops < AbandonOps /\ Create(GoalInput(PathA, NoId, <<>>), TRUE, TRUE)
  \/ ops < AbandonOps /\ \E g \in StoredIds, n \in {NameX, NameMain} : CreateGoalBranch(g, n)
  \/ ops < AbandonOps /\ \E g \in StoredIds, b \in BranchIds, rs \in Reasons :
                           AbandonGoalBranchFor(g, b, rs)

SpecAbandon == Init /\ [][NextAbandon]_vars

\* ------------------------------------------ project membership specification
\* the project is registered before any goal of its path is created
NextMember ==
  \/ ops < MemberOps /\ projects = NoFiles /\ RegisterProject(ProjectInput(<<"p">>, PathA))
  \/ ops < MemberOps /\ projects # NoFiles /\ Create(GoalInput(PathA, NoId, <<>>), TRUE, TRUE)
  \/ ops < MemberOps /\ \E g \in StoredIds, st \in Statuses :
                          Update(g, [status |-> st], TRUE, TRUE)
  \/ ops < MemberOps /\ \E g \in StoredIds : Pause(g)
  \/ ops < MemberOps /\ \E g \in StoredIds : Resume(g)
  \/ ops < MemberOps /\ \E g \in StoredIds : Complete(g, FALSE)
  \/ ops < MemberOps /\ \E g \in StoredIds : Abandon(g)

SpecMember == Init /\ [][NextMember]_vars

\* ------------------------------------------------ parent chain specification
\* the parent of a new goal is none or the id of a goal stored at the call
NextChain ==
  \/ Tick
  \/ ops < ChainOps /\ \E par \in {NoId} \cup StoredIds :
                         Create(GoalInput(PathA, par, <<>>), FALSE, TRUE)
  \/ ops < ChainOps /\ \E g \in StoredIds : Update(g, [status |-> "paused"], FALSE, TRUE)
  \/ ops < ChainOps /\ \E g \in StoredIds : Archive(g, TRUE)

SpecChain == Init /\ [][NextChain]_vars

\* ================================================================== claims
StoredGoal(id) == loadGoal(Store, id)
InSeq(s, x) == \E i \in 1..Len(s) : s[i] = x
StoreNext == [ active |-> active', archived |-> archived', snapFiles |-> snapFiles',
               branchFiles |-> branchFiles', projects |-> projects', index |-> index' ]
SnapAt(gid, sid) == snapFiles[<<gid, sid>>]
Distinct(s) == \A i \in 1..Len(s), j \in 1..Len(s) : s[i] = s[j] => i = j

\* C1 (as claimed): for every stored goal with snapshots list s, the record
\* of s[1] has no previous_snapshot and the record of every later s[i] has
\* previous_snapshot = s[i-1].
C1_SnapshotChain ==
  \A id \in StoredIds :
    LET s == StoredGoal(id).snapshots
    IN \A i \in 1..Len(s) :
         /\ <<id, s[i]>> \in DOMAIN snapFiles
         /\ SnapAt(id, s[i]).previous_snapshot = IF i = 1 THEN NoId ELSE s[i - 1]

\* the chain does hold for every goal whose snapshot ids are pairwise distinct
C1_ChainWhenDistinct ==
  \A id \in StoredIds :
    LET s == StoredGoal(id).snapshots
    IN Distinct(s) =>
         \A i \in 1..Len(s) :
           /\ <<id, s[i]>> \in DOMAIN snapFiles
           /\ SnapAt(id, s[i]).previous_snapshot = IF i = 1 THEN NoId ELSE s[i - 1]

CurrentRefs(g) == { i \in 1..Len(g.branches) : g.branches[i].current = "true" }

\* C2 (as claimed): every stored goal has exactly one branch reference with
\* current = true.
C2_SingleCurrent ==
  \A id \in StoredIds : Cardinality(CurrentRefs(StoredGoal(id))) = 1

Terminal(st) == st \in {"merged", "abandoned"}

\* C8 (as claimed): a persisted branch record whose status is merged or
\* abandoned is never active again under the same id.
C8_TerminalStays ==
  [][ \A k \in DOMAIN branchFiles :
        Terminal(branchFiles[k].status) =>
          (k \in DOMAIN branchFiles' /\ branchFiles'[k].status # "active") ]_vars

\* C8 (amended): abandonGoalBranch on a stored record leaves it abandoned, a
\* record is never removed, and a merged or abandoned record becomes active
\* again only when createGoalBranch is called on its goal with a name whose
\* slug is its id (the last-write-wins overwrite).
C8_OnlyOverwriteReactivates ==
  [][ /\ \A k \in DOMAIN branchFiles :
           /\ k \in DOMAIN branchFiles'
           /\ (Terminal(branchFiles[k].status) /\ branchFiles'[k].status = "active")
                => (last'.op = "createGoalBranch" /\ last'.ret = "ok"
                    /\ k = <<last'.gid, last'.bid>>)
      /\ (last'.op = "abandonGoalBranch" /\ last'.ret = "ok")
           => branchFiles'[<<last'.gid, last'.bid>>].status = "abandoned" ]_vars

\* an abandoned reference to a branch whose record is active: the record was
\* abandoned and then overwritten
C8_Witness ==
  /\ last.op = "createGoalBranch"
  /\ last.ret = "ok"
  /\ branchFiles[<<last.gid, last.bid>>].status = "active"
  /\ \E i \in 1..Len(StoredGoal(last.gid).branches) :
       /\ StoredGoal(last.gid).branches[i].id = last.bid
       /\ StoredGoal(last.gid).branches[i].status = "abandoned"

\* C9 (as claimed): once a persisted branch has a resolution, no later call
\* changes or clears it.
C9_ResolutionWrittenOnce ==
  [][ \A k \in DOMAIN branchFiles :
        branchFiles[k].resolution # NoResolution =>
          (k \in DOMAIN branchFiles'
           /\ branchFiles'[k].resolution = branchFiles[k].resolution) ]_vars

\* C10 (as claimed): the reference with id branch_main and any record with
\* id branch_main are never abandoned or merged.
C10_MainProtected ==
  /\ \A id \in StoredIds :
       \A i \in 1..Len(StoredGoal(id).branches) :
         StoredGoal(id).branches[i].id = BranchMain
           => ~Terminal(StoredGoal(id).branches[i].status)
  /\ \A k \in DOMAIN branchFiles :
       k[2] = BranchMain => ~Terminal(branchFiles[k].status)

AllProjectGoals(p) ==
  p.active_goals \o p.paused_goals \o p.completed_goals \o p.abandoned_goals

\* C3: in every project record a goal id appears in at most one of the four
\* status lists, and at most once in it.
C3_ListsDisjoint ==
  \A k \in DOMAIN projects : Distinct(AllProjectGoals(projects[k]))

\* a goal that a status-changing update has moved out of active_goals
C3_Witness ==
  /\ last.op = "update"
  /\ last.ret = "ok"
  /\ \E k \in DOMAIN projects :
       /\ Len(projects[k].paused_goals) + Len(projects[k].completed_goals)
            + Len(projects[k].abandoned_goals) > 0
       /\ \E i \in 1..Len(AllProjectGoals(projects[k])) :
            AllProjectGoals(projects[k])[i] = last.gid

IndexingOps == {"create", "update", "archive", "createGoalBranch", "abandonGoalBranch"}
SansGenerated(idx) == [idx EXCEPT !.generated = 0]

C5_Archive ==
  [][ (last'.op = "archive" /\ ops' = ops + 1) =>
        /\ (last'.ret = "true") = (last'.gid \in DOMAIN active)
        /\ last'.ret = "false" =>
             UNCHANGED <<active, archived, snapFiles, branchFiles, projects, index>>
        /\ last'.ret = "true" =>
             /\ loadGoal(StoreNext, last'.gid) = active[last'.gid]
             /\ ~InSeq(listGoals(StoreNext, FALSE), last'.gid)
             /\ InSeq(listGoals(StoreNext, TRUE), last'.gid) ]_vars

\* archive has just returned false for a goal present only in the archived area
C5_Witness ==
  /\ last.op = "archive"
  /\ last.ret = "false"
  /\ last.gid \in DOMAIN archived
  /\ last.gid \notin DOMAIN active

InRange(p) == 0 <= p /\ p <= ProgressOne

\* C6 (as claimed): every stored goal record and every stored snapshot has
\* progress within [0, 1].
C6_ProgressInRange ==
  /\ \A id \in DOMAIN active : InRange(active[id].progress)
  /\ \A id \in DOMAIN archived : InRange(archived[id].progress)
  /\ \A k \in DOMAIN snapFiles : InRange(snapFiles[k].progress)

AllowedMove(a, b) ==
  \/ a = b
  \/ a = "active" /\ b \in {"paused", "completed", "abandoned", "blocked"}
  \/ a = "paused" /\ b \in {"active", "abandoned"}
  \/ a = "blocked" /\ b = "active"

\* C7 (as claimed): a stored goal's status moves only along active<->paused,
\* active->completed, active|paused->abandoned and active<->blocked, and a
\* completed or abandoned goal keeps its status.
C7_StatusMachine ==
  [][ \A id \in StoredIds :
        (id \in StoredIds' /\ StoredGoal(id).id = loadGoal(StoreNext, id).id
           /\ last'.op # "create")
          => AllowedMove(StoredGoal(id).status, loadGoal(StoreNext, id).status) ]_vars

\* C11 (as claimed): the content stored under a (goal id, snapshot id) is
\* never changed or removed by a later operation.
C11_SnapshotImmutable ==
  [][ \A k \in DOMAIN snapFiles :
        k \in DOMAIN snapFiles' /\ snapFiles'[k] = snapFiles[k] ]_vars

\* C12 (as claimed): for every stored goal, listSnapshots returns the ids in
\* the order of the goal's snapshots list, which is the order of creation.
C12_ListingOrder ==
  \A id \in StoredIds : listSnapshots(Store, id) = StoredGoal(id).snapshots

\* C13: the goal createGoal returns, which create stores as it is when no
\* snapshot is taken, has status active, progress 0, no snapshots and exactly
\* one branch reference, with id branch_main and current = true.
C13_CreateGoalDefaults ==
  (last.op = "create" /\ ~last.dflt) =>
    LET g == active[last.gid]
    IN /\ g.status = "active"
       /\ g.progress = 0
       /\ g.snapshots = <<>>
       /\ Len(g.branches) = 1
       /\ g.branches[1].id = BranchMain
       /\ g.branches[1].current = "true"

\* a goal created from an input with tags and the longer project path
C13_Witness ==
  /\ last.op = "create"
  /\ ~last.dflt
  /\ active[last.gid].tags = <<"t1">>
  /\ active[last.gid].project = PathAB
  /\ active[last.gid].current_state = "s1"

Blank(g) ==
  g.title = "" \/ g.current_state = "" \/ g.desired_state = "" \/ g.project = <<>>

\* C14 (as claimed): a create whose title, current_state, desired_state or
\* project is blank writes nothing, so no stored goal and no stored snapshot
\* comes from a blank input.
C14_BlankRejected ==
  /\ \A id \in StoredIds : ~Blank(StoredGoal(id))
  /\ \A k \in DOMAIN snapFiles : snapFiles[k].current_state # "" /\ snapFiles[k].desired_state # ""
  /\ IndexFile \in DOMAIN index =>
       \A id \in DOMAIN index[IndexFile].goals : id \in StoredIds /\ ~Blank(StoredGoal(id))

\* C15 (as claimed): create gives every goal an id no stored goal has, so it
\* never replaces the record of an existing goal.
C15_FreshGoalId ==
  [][ (last'.op = "create" /\ ops' = ops + 1) => last'.gid \notin StoredIds ]_vars

\* C16: the branch record createGoalBranch persists, which is what
\* createBranch returned, has as parent_branch the id of the goal's reference
\* flagged current (branch_main when none is flagged), as branch_point the
\* last id of the goal's snapshots list, no snapshots, status active and no
\* resolution.
C16_CreateBranchResult ==
  [][ (last'.op = "createGoalBranch" /\ last'.ret = "ok" /\ ops' = ops + 1) =>
        LET g == StoredGoal(last'.gid)
            b == branchFiles'[<<last'.gid, last'.bid>>]
        IN /\ CurrentRefs(g) = {} => b.parent_branch = BranchMain
           /\ \A i \in CurrentRefs(g) : b.parent_branch = g.branches[i].id
           /\ b.branch_point = Last(loadGoal(StoreNext, last'.gid).snapshots)
           /\ b.snapshots = <<>>
           /\ b.status = "active"
           /\ b.resolution = NoResolution ]_vars

\* a branch created while another branch than branch_main was current
C16_Witness ==
  /\ last.op = "createGoalBranch"
  /\ last.ret = "ok"
  /\ branchFiles[<<last.gid, last.bid>>].parent_branch = generateBranchId(NameX)

\* C17 (as claimed): the branch_point of every persisted branch record names
\* a persisted snapshot of the same goal that was created before the branch
\* record: the snapshot is there when the branch is written, is not younger
\* than the branch, and is not replaced by a later one while the branch
\* record stays as it is.
C17_BranchPoint ==
  [][ \A k \in DOMAIN branchFiles' :
        LET bp == <<k[1], branchFiles'[k].branch_point>>
        IN /\ bp \in DOMAIN snapFiles'
           /\ snapFiles'[bp].created <= branchFiles'[k].created
           /\ (k \in DOMAIN branchFiles /\ branchFiles'[k] = branchFiles[k])
                => (bp \in DOMAIN snapFiles /\ snapFiles'[bp] = snapFiles[bp]) ]_vars

\* the part of C17 that does hold: the branch point always names a persisted
\* snapshot of the goal that is not younger than the branch record
C17_PointExists ==
  \A k \in DOMAIN branchFiles :
    LET bp == <<k[1], branchFiles[k].branch_point>>
    IN bp \in DOMAIN snapFiles /\ snapFiles[bp].created <= branchFiles[k].created

\* C18 (as claimed): switchBranch with a branch id that no reference of the
\* goal has reports a failure and leaves every stored record as it was.
C18_MissingSwitchFails ==
  [][ ( /\ last'.op = "switchBranch"
        /\ ops' = ops + 1
        /\ last'.gid \in StoredIds
        /\ \A i \in 1..Len(StoredGoal(last'.gid).branches) :
             StoredGoal(last'.gid).branches[i].id # last'.bid )
      => ( /\ last'.ret = "null"
           /\ UNCHANGED <<active, archived, snapFiles, branchFiles, projects, index>> ) ]_vars

GoalWrites ==
  {"update", "complete", "abandon", "pause", "resume", "setProgress",
   "createManualSnapshot", "createGoalBranch", "switchBranch"}

\* C19: a goal operation on a goal id that is not stored, abandonGoalBranch
\* on a branch id that is not stored and archive on a goal that is not active
\* each return null (false for archive) and change no goal, snapshot, branch,
\* project or index record.
C19_AbsentIsNoOp ==
  [][ ops' = ops + 1 =>
        LET absent ==
              \/ last'.op \in GoalWrites /\ last'.gid \notin StoredIds
              \/ last'.op = "abandonGoalBranch"
                   /\ <<last'.gid, last'.bid>> \notin DOMAIN branchFiles
              \/ last'.op = "archive" /\ last'.gid \notin DOMAIN active
        IN absent =>
             /\ last'.ret = (IF last'.op = "archive" THEN "false" ELSE "null")
             /\ UNCHANGED <<active, archived, snapFiles, branchFiles, projects, index>> ]_vars

\* abandonGoalBranch has just returned null for a stored goal that has no
\* such branch, with goal and snapshot records in the store
C19_Witness ==
  /\ last.op = "abandonGoalBranch"
  /\ last.ret = "null"
  /\ last.gid \in StoredIds
  /\ snapFiles # NoFiles

SameTracked(g, h) ==
  /\ g.progress = h.progress
  /\ g.status = h.status
  /\ g.current_state = h.current_state
  /\ g.desired_state = h.desired_state

\* C20 (as claimed): an update, setProgress, pause, resume, complete or
\* abandon that leaves progress, status, current_state and desired_state as
\* stored appends no snapshot id and persists no snapshot record.
C20_NoOpNoSnapshot ==
  [][ ( /\ ops' = ops + 1
        /\ last'.op \in {"update", "setProgress", "pause", "resume", "complete", "abandon"}
        /\ last'.ret = "ok"
        /\ SameTracked(StoredGoal(last'.gid), loadGoal(StoreNext, last'.gid)) )
      => ( /\ loadGoal(StoreNext, last'.gid).snapshots = StoredGoal(last'.gid).snapshots
           /\ snapFiles' = snapFiles ) ]_vars

\* the same for the operations other than complete, which does hold
C20_NoOpNoSnapshotSansComplete ==
  [][ ( /\ ops' = ops + 1
        /\ last'.op \in {"update", "setProgress", "pause", "resume", "abandon"}
        /\ last'.ret = "ok"
        /\ SameTracked(StoredGoal(last'.gid), loadGoal(StoreNext, last'.gid)) )
      => ( /\ loadGoal(StoreNext, last'.gid).snapshots = StoredGoal(last'.gid).snapshots
           /\ snapFiles' = snapFiles ) ]_vars

\* C21 (as claimed): an update with default options that changes
\* current_state, desired_state, progress or status appends one snapshot id
\* to the goal and persists under it a snapshot with the post-update values.
C21_SnapshotOnChange ==
  [][ ( /\ ops' = ops + 1
        /\ last'.op = "update"
        /\ last'.ret = "ok"
        /\ last'.dflt
        /\ ~SameTracked(StoredGoal(last'.gid), loadGoal(StoreNext, last'.gid)) )
      => LET g == StoredGoal(last'.gid)
             h == loadGoal(StoreNext, last'.gid)
         IN /\ Len(h.snapshots) = Len(g.snapshots) + 1
            /\ SubSeq(h.snapshots, 1, Len(g.snapshots)) = g.snapshots
            /\ <<h.id, Last(h.snapshots)>> \in DOMAIN snapFiles'
            /\ SameTracked(snapFiles'[<<h.id, Last(h.snapshots)>>], h) ]_vars

C24_AtomicReplace ==
  [][ (last'.op = "rebuildIndex" /\ last'.ret = "interrupted" /\ ops' = ops + 1) =>
        \/ index' = index
        \/ index' = Put(index, IndexFile, buildIndex(loadAllGoals(Store, TRUE), now)) ]_vars

\* process q loaded the goal before process p wrote it and wrote it after p
Overwrote(q, p) ==
  /\ procs[p].pc = "done"
  /\ procs[q].pc = "done"
  /\ procs[q].loadedAt < procs[p].savedAt
  /\ procs[p].savedAt < procs[q].savedAt

\* the snapshot id process p drew is new: no earlier snapshot of the goal
\* and not the snapshot of q has it
FreshSnapshot(p, q) ==
  /\ procs[p].snap.id # procs[q].snap.id
  /\ ~InSeq(SubSeq(procs[p].goal.snapshots, 1, Len(procs[p].goal.snapshots) - 1),
            procs[p].snap.id)

\* C25: when two processes run update on one goal and the later writer had
\* loaded the goal before the earlier one wrote it, the stored goal holds the
\* later writer's patch only, and the earlier writer's snapshot is persisted
\* but missing from the goal's snapshots list.
C25_LostUpdate ==
  \A p \in Writers, q \in Writers :
    Overwrote(q, p) =>
      LET g == StoredGoal(procs[p].gid)
          f == CHOOSE x \in DOMAIN procs[p].input : TRUE
          h == CHOOSE x \in DOMAIN procs[q].input : TRUE
      IN /\ g[h] = procs[q].input[h]
         /\ g[f] # procs[p].input[f]
         /\ <<g.id, procs[p].snap.id>> \in DOMAIN snapFiles
         /\ FreshSnapshot(p, q) => ~InSeq(g.snapshots, procs[p].snap.id)

\* the race has happened: progress 0.5 was written and is gone, and a
\* persisted snapshot of the goal is not in its list
C25_Witness ==
  /\ Overwrote(2, 1)
  /\ StoredGoal(procs[1].gid).progress = 0
  /\ StoredGoal(procs[1].gid).status = "paused"
  /\ \E k \in DOMAIN snapFiles :
       k[1] = procs[1].gid /\ ~InSeq(StoredGoal(procs[1].gid).snapshots, k[2])

Count(sq, x) == Cardinality({ i \in 1..Len(sq) : sq[i] = x })
SameLists(a, b) == \A f \in StatusLists : a[f] = b[f]

\* C26: for every project, goal id and status of the four, applying
\* addGoalToProject twice or three times with the same (goalId, status) gives
\* the four lists that applying it once gives, with the goal id exactly once
\* in the list of the status and in no other list.
C26_AddIdempotent ==
  \A k \in DOMAIN projects, g \in {GenId(0, 0), GenId(0, 1)}, st \in ListStatuses :
    LET once == addGoalToProject(projects[k], g, st, now)
        twice == addGoalToProject(once, g, st, MaxTime)
        thrice == addGoalToProject(twice, g, st, MaxTime)
    IN /\ SameLists(twice, once)
       /\ SameLists(thrice, once)
       /\ \A f \in StatusLists : Count(once[f], g) = (IF f = ListOf(st) THEN 1 ELSE 0)

\* addGoalToProject has been applied to a project that held the goal id
\* twice, and has moved it
C26_Witness ==
  /\ last.op = "addGoalToProject"
  /\ last.ret = "paused"
  /\ \E k \in DOMAIN projects :
       /\ Count(projects[k].paused_goals, last.gid) = 1
       /\ Len(projects[k].active_goals) = 1
       /\ Len(projects[k].paused_goals) = 2

\* C27: setProgress(goalId, p) on a stored goal persists 0 for p below 0, 1
\* for p above 1 and p itself for p within [0, 1].
C27_SetProgressClamps ==
  [][ (last'.op = "setProgress" /\ last'.ret = "ok" /\ ops' = ops + 1) =>
        LET q == loadGoal(StoreNext, last'.gid).progress
            p == last'.arg
        IN /\ p < 0 => q = 0
           /\ p > ProgressOne => q = ProgressOne
           /\ (0 <= p /\ p <= ProgressOne) => q = p ]_vars

\* setProgress with -0.3 has brought a goal from a positive progress to 0
C27_Witness ==
  /\ last.op = "setProgress"
  /\ last.ret = "ok"
  /\ last.arg < 0
  /\ StoredGoal(last.gid).progress = 0
  /\ Len(StoredGoal(last.gid).snapshots) >= 3

\* the value of an object: which value each key has, whatever the key order
AsMap(obj) == { obj[i] : i \in 1..Len(obj) }
SameValue(f, a, b) == IF f = "context" THEN AsMap(a) = AsMap(b) ELSE a = b

\* C28 (as claimed): computeChanges(before, after, fields) has exactly one
\* entry, in field order, for each field whose two values differ by value,
\* carrying the from and to values, and none for a field whose values are equal.
C28_ComputeChanges ==
  last.op = "computeChanges" =>
    LET Differs(f) == ~SameValue(f, last.before[f], last.after[f])
        differing == SelectSeq(last.fields, Differs)
    IN /\ Len(last.value) = Len(differing)
       /\ \A i \in 1..Len(differing) :
            /\ last.value[i].field = differing[i]
            /\ last.value[i].from = JsonStringify(last.before[differing[i]])
            /\ last.value[i].to = JsonStringify(last.after[differing[i]])

\* C28, the part that holds: the claim for field sets without an object field
C28_ScalarFields ==
  (last.op = "computeChanges" /\ ~InSeq(last.fields, "context")) =>
    LET Differs(f) == last.before[f] # last.after[f]
        differing == SelectSeq(last.fields, Differs)
    IN /\ Len(last.value) = Len(differing)
       /\ \A i \in 1..Len(differing) :
            /\ last.value[i].field = differing[i]
            /\ last.value[i].from = JsonStringify(last.before[differing[i]])
            /\ last.value[i].to = JsonStringify(last.after[differing[i]])

\* C28, the part that holds: computeChanges(x, x, fields) is empty
C28_SameIsEmpty ==
  (last.op = "computeChanges" /\ last.before = last.after) => last.value = <<>>

\* C29 (as claimed): after complete(goalId) or abandon(goalId, reason) on a
\* goal of the active area, list(false) does not contain the goal and
\* load(goalId) still returns it.
C29_ArchivedWhenClosed ==
  [][ (last'.op \in {"complete", "abandon"} /\ ops' = ops + 1
         /\ last'.gid \in DOMAIN active) =>
        /\ ~InSeq(listGoals(StoreNext, FALSE), last'.gid)
        /\ loadGoal(StoreNext, last'.gid) # NoGoal ]_vars

\* C29, the part that holds: the goal stays loadable, and no service
\* operation removes a goal record
C29_NoServiceDelete ==
  [][ \A id \in StoredIds : loadGoal(StoreNext, id) # NoGoal ]_vars

\* C30: deleteGoal(id) returns true exactly when a record of id was in the
\* active or in the archived area; afterwards load(id) is absent and id is in
\* neither list(false) nor list(true).
C30_HardDelete ==
  [][ (last'.op = "deleteGoal" /\ ops' = ops + 1) =>
        LET id == last'.gid
        IN /\ (last'.ret = "true") <=> (id \in StoredIds)
           /\ last'.ret \in {"true", "false"}
           /\ loadGoal(StoreNext, id) = NoGoal
           /\ ~InSeq(listGoals(StoreNext, FALSE), id)
           /\ ~InSeq(listGoals(StoreNext, TRUE), id) ]_vars

\* a goal that was created has been deleted, another goal remains
C30_Witness ==
  /\ last.op = "deleteGoal" /\ last.ret = "true"
  /\ last.gid \notin StoredIds
  /\ \E k \in DOMAIN snapFiles : k[1] = last.gid
  /\ StoredIds # {}

\* C31: when createGoalBranch is called on a goal that already has a branch
\* record of the id the name produces, afterwards the one record of that id
\* holds this call's name, description, parent_branch and branch_point, and
\* nothing of the earlier record (status active, no resolution, created now).
C31_LastWriteWins ==
  [][ (last'.op = "createGoalBranch" /\ last'.ret = "ok" /\ ops' = ops + 1
         /\ <<last'.gid, last'.bid>> \in DOMAIN branchFiles) =>
        LET rec == branchFiles'[<<last'.gid, last'.bid>>]
            before == loadGoal(Store, last'.gid)
            after == loadGoal(StoreNext, last'.gid)
        IN /\ rec.name = last'.name
           /\ rec.description = last'.description
           /\ rec.parent_branch = CurrentBranch(before)
           /\ rec.branch_point = Last(after.snapshots)
           /\ Len(after.snapshots) = Len(before.snapshots) + 1
           /\ rec.status = "active" /\ rec.resolution = NoResolution
           /\ rec.created = now /\ rec.snapshots = <<>>
           /\ DOMAIN branchFiles' = DOMAIN branchFiles ]_vars

\* the record made for "x" from the default branch, then switched to and
\* abandoned or not, was replaced by the record made for "X" from branch x
C31_Witness ==
  /\ last.op = "createGoalBranch" /\ last.ret = "ok" /\ last.dflt = FALSE
  /\ last.name = NameXUpper /\ last.description = "d2"
  /\ LET g == StoredGoal(last.gid)
         rec == branchFiles[<<last.gid, last.bid>>]
     IN /\ Len(g.branches) >= 3
        /\ g.branches[2].id = last.bid /\ g.branches[2].name = NameX
        /\ rec.name = NameXUpper /\ rec.description = "d2"
        /\ rec.parent_branch = last.bid

\* the parent field of the index entry of x; none when x has no entry
ParentOf(x) ==
  LET g == index[IndexFile].goals IN IF x \in DOMAIN g THEN g[x].parent ELSE NoId
RECURSIVE ChainOf(_, _)
\* the first n ids on the parent chain of x, nearest first
ChainOf(x, n) ==
  IF n = 0 \/ ParentOf(x) = NoId THEN <<>>
  ELSE <<ParentOf(x)>> \o ChainOf(ParentOf(x), n - 1)
ChainMax == Cardinality(DOMAIN index[IndexFile].goals) + 1
\* following parent fields from x reaches an entry with no parent or an id
\* with no entry
ChainEnds(x) == Len(ChainOf(x, ChainMax + 1)) <= ChainMax
\* the targets of the parent edges leaving x
ChildrenOf(x) ==
  LET e == index[IndexFile].edges
  IN { e[i].to : i \in { j \in 1..Len(e) : e[j].from = x /\ e[j].type = "parent" } }
RECURSIVE Below(_, _)
\* the ids reached from the ids of X by one to n parent edges
Below(X, n) ==
  IF n = 0 THEN {}
  ELSE LET next == UNION { ChildrenOf(x) : x \in X } IN next \cup Below(next, n - 1)
\* a cycle of parent edges can be reached from x
ReachesCycle(x) == \E y \in {x} \cup Below({x}, ChainMax) : y \in Below({y}, ChainMax)

C32_CycleWalked ==
  ~(walk.fn = "getAncestors" /\ ~ChainEnds(walk.start) /\ Len(walk.out) = MaxWalk)

\* C32, the other case for getDescendants
C32_CycleDescended ==
  ~(walk.fn = "getDescendants" /\ ReachesCycle(walk.start) /\ Len(walk.stack) = MaxWalk)

\* C32, for comparison: a getDescendants that reaches no cycle returns
C32_DescendantsReturn ==
  (walk.fn = "getDescendants" /\ ~ReachesCycle(walk.start)) ~> (walk.pc = "done")

\* C33: whichever core operation of a session-start or session-end hook
\* fails, the hook's main routine completes normally and has reported the
\* failure as a message.
C33_HooksComplete ==
  (last.op \in {"sessionStartHook", "sessionEndHook"}) =>
     /\ last.ret = "completed"
     /\ (last.op = "sessionStartHook" /\ last.fail # "none")
          => InSeq(last.log, "SessionStart error")
     /\ (last.op = "sessionEndHook" /\ last.fail = "endSession" /\ last.sid # None)
          => InSeq(last.log, "SessionEnd error")
     /\ (last.op = "sessionEndHook" /\ ~InSeq(last.log, "SessionEnd error"))
          => (InSeq(last.log, "Session state saved") \/ InSeq(last.log, "No valid payload"))

\* saveGoal failed in the session-end hook after saveSnapshot had written:
\* the hook completed and reported it
C33_Witness ==
  /\ last.op = "sessionEndHook" /\ last.fail = "saveGoal"
  /\ last.ret = "completed" /\ InSeq(last.log, "SessionEnd error")
  /\ \E k \in DOMAIN snapFiles :
       k[1] = last.gid /\ ~InSeq(StoredGoal(last.gid).snapshots, k[2])

\* C34: abandonGoalBranch on an existing active branch sets the record's
\* status to abandoned with resolution.reason the given reason, leaves the
\* record's branch_point, parent_branch and snapshots as they were, leaves
\* the goal's snapshots list and every snapshot record as they were, and
\* changes no branch reference of the goal but those of the branch's id,
\* which get status abandoned.
C34_AbandonFrame ==
  [][ (last'.op = "abandonGoalBranch" /\ last'.ret = "ok" /\ ops' = ops + 1
         /\ <<last'.gid, last'.bid>> \in DOMAIN branchFiles
         /\ branchFiles[<<last'.gid, last'.bid>>].status = "active") =>
        LET k == <<last'.gid, last'.bid>>
            old == branchFiles[k]
            rec == branchFiles'[k]
            before == loadGoal(Store, last'.gid)
            after == loadGoal(StoreNext, last'.gid)
        IN /\ rec.status = "abandoned"
           /\ rec.resolution.reason = last'.reason
           /\ rec.branch_point = old.branch_point
           /\ rec.parent_branch = old.parent_branch
           /\ rec.snapshots = old.snapshots
           /\ after.snapshots = before.snapshots
           /\ snapFiles' = snapFiles
           /\ Len(after.branches) = Len(before.branches)
           /\ \A i \in 1..Len(before.branches) :
                IF before.branches[i].id = last'.bid
                THEN after.branches[i].status = "abandoned"
                ELSE after.branches[i] = before.branches[i]
           /\ \A j \in DOMAIN branchFiles : j # k => branchFiles'[j] = branchFiles[j] ]_vars

\* a branch taken from a goal with two snapshots was abandoned with reason
\* r2 while the goal has another branch, still active
C34_Witness ==
  /\ last.op = "abandonGoalBranch" /\ last.ret = "ok" /\ last.reason = "r2"
  /\ LET rec == branchFiles[<<last.gid, last.bid>>]
         g == StoredGoal(last.gid)
     IN /\ rec.status = "abandoned" /\ rec.resolution.reason = "r2"
        /\ rec.branch_point # EmptyId
        /\ \E i \in 1..Len(g.branches) :
             g.branches[i].id # last.bid /\ g.branches[i].status = "active"
                /\ g.branches[i].id # BranchMain
        /\ \E i \in 1..Len(g.branches) :
             g.branches[i].id = last.bid /\ g.branches[i].status = "abandoned"

\* C35 (as claimed): no goal id has a record both in the active area and in
\* the archived area.
C35_OnePlace == (DOMAIN active) \cap (DOMAIN archived) = {}

\* C35, the part that holds: a step that leaves a goal in both areas wrote
\* a goal that was loaded from the archived area, or created a goal under
\* an id that was archived
C35_OnlyWritesToArchived ==
  [][ \A id \in (DOMAIN active') \cap (DOMAIN archived') :
        \/ id \in (DOMAIN active) \cap (DOMAIN archived)
        \/ id \in (DOMAIN archived) \ (DOMAIN active) ]_vars

\* C35, the named case (as claimed): no update leaves the goal it wrote with
\* an active record and a differing archived record
C35_UpdateAfterArchive ==
  ~(last.op = "update" /\ last.ret = "ok"
      /\ last.gid \in (DOMAIN active) \cap (DOMAIN archived)
      /\ active[last.gid].status # archived[last.gid].status)

RECURSIVE SumOf(_)
\* the sum of the values of a function with finite domain
SumOf(f) ==
  IF DOMAIN f = {} THEN 0
  ELSE LET k == CHOOSE x \in DOMAIN f : TRUE
       IN f[k] + SumOf([x \in (DOMAIN f) \ {k} |-> f[x]])
\* how often id occurs in the lists of a group map
Occurrences(group, id) == SumOf([k \in DOMAIN group |-> Count(group[k], id)])

\* C36 (as claimed): in the rebuilt index every stored goal id occurs exactly
\* once across the by_status lists and exactly once across the by_project
\* lists, and getStats().total is the sum of the byStatus counts and the sum
\* of the byProject counts.
C36_CountedOnce ==
  (last.op \in IndexingOps /\ last.ret \in {"ok", "true"} /\ last.dflt) =>
    LET idx == index[IndexFile]
        stats == getStats(Store, now).value
    IN /\ \A id \in StoredIds :
            /\ Occurrences(idx.by_status, id) = 1
            /\ Occurrences(idx.by_project, id) = 1
       /\ stats.total = SumOf(stats.byStatus)
       /\ stats.total = SumOf(stats.byProject)

\* C36, the part that holds: the claim for stores in which no goal has a
\* record in both areas
C36_CountedOnceInOnePlace ==
  (last.op \in IndexingOps /\ last.ret \in {"ok", "true"} /\ last.dflt
     /\ (DOMAIN active) \cap (DOMAIN archived) = {}) =>
    LET idx == index[IndexFile]
        stats == getStats(Store, now).value
    IN /\ \A id \in StoredIds :
            /\ Occurrences(idx.by_status, id) = 1
            /\ Occurrences(idx.by_project, id) = 1
       /\ stats.total = SumOf(stats.byStatus)
       /\ stats.total = SumOf(stats.byProject)

\* C37 (as claimed): every id in a stored goal's snapshots list names a
\* persisted snapshot record of that goal and is in the list once, and every
\* persisted snapshot record of a stored goal is in that goal's list.
C37_SnapshotIntegrity ==
  \A id \in StoredIds :
    LET sn == StoredGoal(id).snapshots
    IN /\ \A i \in 1..Len(sn) :
            /\ <<id, sn[i]>> \in DOMAIN snapFiles
            /\ SnapAt(id, sn[i]).goal_id = id
            /\ Count(sn, sn[i]) = 1
       /\ \A k \in DOMAIN snapFiles : k[1] = id => InSeq(sn, k[2])

\* C37, the part that holds: every listed id names a persisted record of
\* the goal
C37_ListedIsPersisted ==
  \A id \in StoredIds :
    LET sn == StoredGoal(id).snapshots
    IN \A i \in 1..Len(sn) :
         <<id, sn[i]>> \in DOMAIN snapFiles /\ SnapAt(id, sn[i]).goal_id = id

\* how often the goal id is in the project list f of the project of its path
ListCount(id, f) == Count(findProjectByPath(Store, StoredGoal(id).project)[f], id)

\* C38 (as claimed): every stored goal whose status is active, paused,
\* completed or abandoned is once in the project list of that status and in
\* no other list, and a goal whose status is blocked is still in one of the
\* project's lists.
C38_MembershipFollowsStatus ==
  \A id \in StoredIds :
    LET st == StoredGoal(id).status
    IN IF st = "blocked"
       THEN \E f \in StatusLists : ListCount(id, f) >= 1
       ELSE \A f \in StatusLists : ListCount(id, f) = (IF f = ListOf(st) THEN 1 ELSE 0)

\* C38, the part that holds: the claim for goals whose status is not blocked
C38_FourStatuses ==
  \A id \in StoredIds :
    LET st == StoredGoal(id).status
    IN st # "blocked" =>
         \A f \in StatusLists : ListCount(id, f) = (IF f = ListOf(st) THEN 1 ELSE 0)

\* the branch references of a goal other than the default one
OwnRefs(g) ==
  LET IsOwn(b) == b.id # BranchMain IN SelectSeq(g.branches, IsOwn)

\* in store S the branch references of goal id other than the default name
\* each persisted branch record of the goal once and nothing else, and each
\* reference's status is its record's status
RefsMatchRecords(S, id) ==
  LET refs == OwnRefs(loadGoal(S, id))
      recs == { k[2] : k \in { x \in DOMAIN S.branchFiles : x[1] = id } }
  IN /\ { refs[i].id : i \in 1..Len(refs) } = recs \ {BranchMain}
     /\ \A i \in 1..Len(refs), j \in 1..Len(refs) : refs[i].id = refs[j].id => i = j
     /\ \A i \in 1..Len(refs) :
          <<id, refs[i].id>> \in DOMAIN S.branchFiles
            => refs[i].status = S.branchFiles[<<id, refs[i].id>>].status

\* C39 (as claimed): a createGoalBranch or abandonGoalBranch on a goal whose
\* branch references agree with its branch records leaves them agreeing:
\* same ids, no id repeated in the reference list, same statuses.
C39_RefsMatchRecords ==
  [][ (last'.op \in {"createGoalBranch", "abandonGoalBranch"} /\ last'.ret = "ok"
         /\ ops' = ops + 1 /\ RefsMatchRecords(Store, last'.gid))
        => RefsMatchRecords(StoreNext, last'.gid) ]_vars

\* C39, the part that holds: the claim for a createGoalBranch whose name
\* produces an id the goal has no record of, and for every abandonGoalBranch
C39_FreshIdsMatch ==
  [][ (last'.op \in {"createGoalBranch", "abandonGoalBranch"} /\ last'.ret = "ok"
         /\ ops' = ops + 1 /\ RefsMatchRecords(Store, last'.gid)
         /\ (last'.op = "createGoalBranch"
               => <<last'.gid, last'.bid>> \notin DOMAIN branchFiles))
        => RefsMatchRecords(StoreNext, last'.gid) ]_vars

\* the parent field of the goal stored under x in store S; none when no goal is
GoalParent(S, x) == IF GoalExists(S, x) THEN loadGoal(S, x).parent ELSE NoId
RECURSIVE ParentSteps(_, _, _)
\* the id reached from x by n parent fields, none once a chain has ended
ParentSteps(S, x, n) ==
  IF n = 0 \/ x = NoId THEN x ELSE ParentSteps(S, GoalParent(S, x), n - 1)
\* no goal of S is its own ancestor
Acyclic(S) ==
  LET ids == (DOMAIN S.active) \cup (DOMAIN S.archived)
  IN \A id \in ids : ParentSteps(S, id, Cardinality(ids) + 1) = NoId

\* C40 (as claimed): the parent relation among the stored goals has no
\* cycle, and neither have the parent fields of the rebuilt index, so that
\* every getAncestors walk on it ends.
C40_ParentsAcyclic ==
  /\ Acyclic(Store)
  /\ IndexFile \in DOMAIN index =>
       \A id \in DOMAIN index[IndexFile].goals : ChainEnds(id)

\* C40, the part that holds: a cycle appears only with a create whose
\* generated id is the id of a goal that is already stored
C40_CycleOnlyByIdReuse ==
  [][ (Acyclic(Store) /\ ~Acyclic(StoreNext))
        => (last'.op = "create" /\ last'.gid \in StoredIds) ]_vars

\* C40, the part that holds: no operation but create sets a parent field
C40_ParentSetAtCreate ==
  [][ \A id \in StoredIds :
        last'.op # "create" => GoalParent(StoreNext, id) = GoalParent(Store, id) ]_vars

====
